---- MODULE Spec2Model ----
(***************************************************************************)
(* A model of the SQL generation and result-binding core of the Oracle     *)
(* dialect for gorm (cmmoran/gorm-oracle).                                 *)
(*                                                                         *)
(*   SpecCreate  the Create callback: INSERT / MERGE path decision, the    *)
(*               statement that is built, the per-row execution loop and   *)
(*               the rows that land in the table.                          *)
(*   SpecWhere   conditions added to a statement and the WHERE clause      *)
(*               builder of the dialect (chunking of long IN lists).       *)
(*   SpecUpdate  the Update and Delete callbacks: assignments, the         *)
(*               missing-WHERE guard, execution and the RETURNING outputs. *)
(*   SpecNaming  the naming strategy: table, column and generated names,   *)
(*               the identifier cap, quoting and dictionary case.          *)
(*   SpecTime    time values on their way into a statement: rounding to    *)
(*               the column precision and the TO_TIMESTAMP literal.        *)
(*   SpecIndex   Migrator.CreateIndex and the domain-index options.        *)
(*   SpecConstraint  Migrator.DropConstraint followed by HasConstraint.    *)
(*   SpecMigrate AutoMigrate run twice for the same model.                 *)
(*   SpecLimit   the LIMIT clause builders (12c and 11g forms) and the     *)
(*               rows the server selects for the built statement.          *)
(*   SpecShared  statements running at the same time on one model: the     *)
(*               accesses of the callbacks to the shared parsed schema.    *)
(*   SpecAlter   Migrator.AddColumn and Migrator.AlterColumn statement by  *)
(*               statement, on a server that may reject any of them.       *)
(*   SpecReturning  the builder of the RETURNING clause on the kinds of    *)
(*               destination reflection hands it.                          *)
(*   SpecUpdateExec  the execution step of Update with every error the     *)
(*               driver can return.                                        *)
(*                                                                         *)
(* Values are natural numbers; 0 is the Go zero value of a field.          *)
(***************************************************************************)
EXTENDS Integers, Sequences, FiniteSets, TLC

VARIABLES
    cfg,          \* the statement as the host hands it over (never changes)
    dest,         \* stmt.ReflectValue: the entities of the destination
    table,        \* the rows of the database table
    createValues, \* callbacks.ConvertToCreateValues(stmt), plus appended Out binds
    path,         \* "" | "MERGE" | "INSERT"
    sql,          \* shape of stmt.SQL
    vars,         \* stmt.Vars
    dbError,      \* db.Error: the errors accumulated by db.AddError, in order
    rowsAffected, \* db.RowsAffected
    pc,           \* position of the Create callback
    idx,          \* loop index of the batched INSERT loop (1-based)
    execLog,      \* the statements handed to ConnPool.ExecContext, in order
    conds,        \* the conditions handed to Where / Not: kind, number of ids, negation
    where,        \* stmt.Clauses["WHERE"].Exprs
    whereSQL,     \* the WHERE text written by the clause builder, as tokens
    clauses,      \* the other keys of stmt.Clauses that are present
    ns,           \* the NamingStrategy of the dialector
    ident,        \* the logical names handed to the naming strategy
    rendered,     \* what the naming strategy returned
    ddl,          \* the identifier as written into DDL and its dictionary-case form
    tm,           \* a time value, the data type and the precision of its column
    bind,         \* what convertTime / castTime hand to the statement
    stored,       \* the timestamp the server stores for the bind
    mig,          \* the migrator call: its name and the parsed schema it works on
    dict,         \* the data dictionary of the server: tables, columns, constraints
    migRet,       \* what the migrator call returned and the DDL it executed
    schema,       \* the parsed schema of a model, shared by every statement on it
    stmts         \* the statements running at the same time, each with its position

whereVars == <<conds, where, whereSQL, clauses>>

namingVars == <<ns, ident, rendered, ddl>>

\* the variables of the domains outside statement building
timeVars == <<tm, bind, stored>>

migVars == <<mig, dict, migRet>>

\* the state shared between concurrent statements and their positions
sharedVars == <<schema, stmts>>

extVars == <<namingVars, timeVars, migVars, sharedVars>>

allvars == <<cfg, dest, table, createValues, path, sql, vars, dbError,
             rowsAffected, pc, idx, execLog, conds, where, whereSQL, clauses,
             ns, ident, rendered, ddl, tm, bind, stored, mig, dict, migRet,
             schema, stmts>>

----------------------------------------------------------------------------
(* Bounds *)

MaxRows == 3
MaxId == 2

----------------------------------------------------------------------------
(* Entity schema: the columns of the test tables (ID, UID, NAME), a second *)
(* key column K2 and a column SEQ that may have a server-side default.     *)

DBNames == <<"ID", "K2", "UID", "NAME", "SEQ">>

Fields == {DBNames[i] : i \in 1..Len(DBNames)}

SeqToSet(s) == {s[i] : i \in 1..Len(s)}

\* field.HasDefaultValue && field.DefaultValueInterface == nil
HasDefaultDBValue(d, f) ==
    \/ f = "ID" /\ d.autoInc
    \/ f = "SEQ" /\ d.seqDefault

FieldsWithDefaultDBValue(d) ==
    SelectSeq(DBNames, LAMBDA f : HasDefaultDBValue(d, f))

\* schema.PrioritizedPrimaryField ("" stands for nil)
PrioritizedPrimaryField(d) ==
    IF "ID" \in SeqToSet(d.pk) THEN "ID"
    ELSE IF Len(d.pk) = 1 THEN d.pk[1] ELSE ""

----------------------------------------------------------------------------
(* Bind values *)

Val(v) == [k |-> "val", v |-> v, elem |-> 0, field |-> ""]

\* Dialector.DefaultValueOf: clause.Expr{SQL: "VALUES (DEFAULT)"}
DefaultValueOf == [k |-> "expr", v |-> 0, elem |-> 0, field |-> ""]

\* go_ora.Out{Dest: &dest[j].f}
Out(j, f) == [k |-> "out", v |-> 0, elem |-> j, field |-> f]

NoSQL ==
    [verb |-> "", cols |-> <<>>, literals |-> 0, rows |-> 0, on |-> <<>>,
     update |-> <<>>, insertCols |-> <<>>, returningKw |-> FALSE,
     retCols |-> <<>>, into |-> 0]

----------------------------------------------------------------------------
(* callbacks.ConvertToCreateValues *)

\* gorm.ErrEmptySlice
ErrEmptySlice == "empty slice found"

\* The slice cases add ErrEmptySlice and return at once for a destination of
\* length 0.
EmptySlice(c, rows) == c.destKind # "struct" /\ rows = <<>>

ConvertToCreateValues(c, rows) ==
    LET \* a struct / slice destination: the columns without a database
        \* default, then every database-default column that is non-zero in
        \* some row
        StructColumns ==
            SelectSeq(DBNames, LAMBDA f : ~HasDefaultDBValue(c.ddl, f))
              \o SelectSeq(FieldsWithDefaultDBValue(c.ddl),
                           LAMBDA f : \E i \in 1..Len(rows) : rows[i][f] # 0)
        \* a map destination: the sorted keys
        MapColumns == <<"ID", "K2", "NAME", "SEQ", "UID">>
        cols == IF c.destKind = "maps"
                THEN IF rows = <<>> THEN <<>> ELSE MapColumns
                ELSE StructColumns
        value(i, f) ==
            IF c.destKind # "maps" /\ HasDefaultDBValue(c.ddl, f) /\ rows[i][f] = 0
            THEN DefaultValueOf
            ELSE Val(rows[i][f])
    IN  [Columns |-> cols,
         Values  |-> [i \in 1..Len(rows) |->
                        [j \in 1..Len(cols) |-> value(i, cols[j])]]]

----------------------------------------------------------------------------
(* Create: the path decision *)

\* A slip that keeps only the verdict of the last primary field.
HasConflictLastFieldWins(c, cv) ==
    /\ c.onConflict.present
    /\ c.hasSchema
    /\ Len(c.ddl.pk) > 0
    /\ c.ddl.pk[Len(c.ddl.pk)] \in SeqToSet(cv.Columns)

HasConflict(c, cv) ==
    /\ c.onConflict.present
    /\ c.hasSchema
    /\ Len(c.ddl.pk) > 0
    /\ \A i \in 1..Len(c.ddl.pk) : c.ddl.pk[i] \in SeqToSet(cv.Columns)

----------------------------------------------------------------------------
(* Statement building *)

\* the concatenation of a sequence of sequences
Flatten(ss) ==
    LET RECURSIVE Range(_, _)
        Range(lo, hi) ==
            IF lo > hi THEN <<>>
            ELSE IF lo = hi THEN ss[lo]
            ELSE Range(lo, (lo + hi) \div 2) \o Range((lo + hi) \div 2 + 1, hi)
    IN  Range(1, Len(ss))

\* the pieces of s between the separator positions seps
SplitAt(s, seps) ==
    LET n == Cardinality(seps)
        at(k) == IF k = 0 THEN 0
                 ELSE IF k = n + 1 THEN Len(s) + 1
                 ELSE CHOOSE d \in seps : Cardinality({x \in seps : x <= d}) = k
    IN  [k \in 1..(n + 1) |-> SubSeq(s, at(k - 1) + 1, at(k) - 1)]

\* stmt.AddVar: a clause.Expr is written into the SQL text, any other value
\* becomes one entry of stmt.Vars.
AddVars(values) == SelectSeq(values, LAMBDA b : b.k # "expr")

Literals(values) == Len(SelectSeq(values, LAMBDA b : b.k = "expr"))

\* The column list of WHEN NOT MATCHED THEN INSERT: the auto-increment
\* prioritized primary key is left out.
MergeInsertCols(d, cols) ==
    SelectSeq(cols, LAMBDA f :
        \/ PrioritizedPrimaryField(d) = ""
        \/ ~(PrioritizedPrimaryField(d) = "ID" /\ d.autoInc)
        \/ PrioritizedPrimaryField(d) # f)

\* A MERGE that also asks for the server-assigned columns.
MergeCreateWithReturning(c, cv) ==
    LET all == Flatten(cv.Values)
        ret == FieldsWithDefaultDBValue(c.ddl)
    IN  [sql  |-> [verb |-> "MERGE", cols |-> cv.Columns,
                   literals |-> Literals(all), rows |-> Len(cv.Values),
                   on |-> c.ddl.pk, update |-> c.onConflict.doUpdates,
                   insertCols |-> MergeInsertCols(c.ddl, cv.Columns),
                   returningKw |-> Len(ret) > 0, retCols |-> ret,
                   into |-> Len(ret)],
         vars |-> AddVars(all) \o [i \in 1..Len(ret) |-> Out(1, ret[i])]]

MergeCreate(c, cv) ==
    LET all == Flatten(cv.Values)
    IN  [sql  |-> [verb |-> "MERGE", cols |-> cv.Columns,
                   literals |-> Literals(all), rows |-> Len(cv.Values),
                   on |-> c.ddl.pk, update |-> c.onConflict.doUpdates,
                   insertCols |-> MergeInsertCols(c.ddl, cv.Columns),
                   returningKw |-> FALSE, retCols |-> <<>>, into |-> 0],
         vars |-> AddVars(all)]

\* ReturningFieldsWithDefaultDBValue(stmtSchema, &createValues).Names
ReturningNames(c) ==
    IF c.hasSchema THEN FieldsWithDefaultDBValue(c.ddl) ELSE <<>>

\* Returning.Build on a slice destination that binds every row to element 1.
ReturningOutsFirstElem(c, rows, j) ==
    [i \in 1..Len(ReturningNames(c)) |-> Out(1, ReturningNames(c)[i])]

\* Returning.Build: the Out binds appended to the value list of row j; each
\* points into element j of the destination.
ReturningOuts(c, rows, j) ==
    [i \in 1..Len(ReturningNames(c)) |-> Out(j, ReturningNames(c)[i])]

\* The INSERT branch of Create: VALUES is built from row 0 only, RETURNING
\* appends the Out binds of every row to createValues and those of row 0 to
\* stmt.Vars.
InsertBuild(c, cv, rows) ==
    LET ret == ReturningNames(c)
    IN  [sql  |-> [verb |-> "INSERT", cols |-> cv.Columns,
                   literals |-> Literals(cv.Values[1]), rows |-> 1,
                   on |-> <<>>, update |-> <<>>, insertCols |-> cv.Columns,
                   returningKw |-> Len(ret) > 0, retCols |-> ret,
                   into |-> Len(ret)],
         vars |-> AddVars(cv.Values[1]) \o ReturningOuts(c, rows, 1),
         cv   |-> [cv EXCEPT !.Values =
                      [j \in 1..Len(cv.Values) |->
                          cv.Values[j] \o ReturningOuts(c, rows, j)]]]

----------------------------------------------------------------------------
(* The database behind ConnPool.ExecContext: one table with the primary    *)
(* key and the unique constraint of the migrated schema.  RID tells apart  *)
(* rows that are equal in every column.                                    *)

RowFields == Fields \cup {"RID"}

\* GENERATED BY DEFAULT AS IDENTITY
NextId(tbl) ==
    LET ids == {t["ID"] : t \in tbl}
    IN  (IF ids = {} THEN 0 ELSE CHOOSE m \in ids : \A x \in ids : x <= m) + 1

IndexOf(seq, f) == CHOOSE i \in 1..Len(seq) : seq[i] = f

\* The row the server stores for the supplied column values.
NewRow(tbl, d, supplied) ==
    [f \in RowFields |->
        IF f = "RID" THEN Cardinality(tbl) + 1
        ELSE IF f \in DOMAIN supplied THEN supplied[f]
        ELSE IF f = "ID" /\ d.autoInc THEN NextId(tbl)
        ELSE IF f = "SEQ" /\ d.seqDefault THEN Cardinality(tbl) + 1
        ELSE 0]

\* ORA-00001
ViolatesUnique(tbl, d, row) ==
    \/ /\ Len(d.pk) > 0
       /\ \E t \in tbl : \A i \in 1..Len(d.pk) : t[d.pk[i]] = row[d.pk[i]]
    \/ /\ d.uidUnique
       /\ \E t \in tbl : t["UID"] = row["UID"]

\* INSERT INTO t (cols) VALUES (:1, ...) [RETURNING ... INTO ...]
ExecInsert(tbl, d, s, vs) ==
    LET n == Len(s.cols)
        supplied == [f \in SeqToSet(s.cols) |-> vs[IndexOf(s.cols, f)].v]
        row == NewRow(tbl, d, supplied)
    IN  IF s.literals > 0 \/ (s.returningKw /\ Len(s.retCols) = 0)
        THEN [err |-> "ORA-00936", table |-> tbl, n |-> 0, row |-> <<>>]
        ELSE IF \E i \in 1..n : vs[i].k # "val"
        THEN [err |-> "unsupported bind", table |-> tbl, n |-> 0, row |-> <<>>]
        ELSE IF ViolatesUnique(tbl, d, row)
        THEN [err |-> "ORA-00001", table |-> tbl, n |-> 0, row |-> <<>>]
        ELSE [err |-> "", table |-> tbl \cup {row}, n |-> 1, row |-> row]

RECURSIVE InsertAll(_, _, _)
InsertAll(tbl, d, rows) ==
    IF rows = <<>> THEN [ok |-> TRUE, table |-> tbl]
    ELSE LET row == NewRow(tbl, d, Head(rows))
         IN  IF ViolatesUnique(tbl, d, row) THEN [ok |-> FALSE, table |-> tbl]
             ELSE InsertAll(tbl \cup {row}, d, Tail(rows))

\* MERGE INTO t USING (SELECT ... UNION ALL ...) excluded ON (pk = excluded.pk)
\* [WHEN MATCHED THEN UPDATE SET ...] WHEN NOT MATCHED THEN INSERT ...
\* Every source row is matched against the table as it was when the statement
\* started; a constraint violation rolls the whole statement back.
ExecMerge(tbl, d, s, vs) ==
    LET n == Len(s.cols)
        src(r) == [f \in SeqToSet(s.cols) |-> vs[(r - 1) * n + IndexOf(s.cols, f)].v]
        matches(r, t) == \A i \in 1..Len(s.on) : t[s.on[i]] = src(r)[s.on[i]]
        matchedBy(t) == {r \in 1..s.rows : matches(r, t)}
        unstable == Len(s.update) > 0 /\ \E t \in tbl : Cardinality(matchedBy(t)) > 1
        upd(t) ==
            IF Len(s.update) = 0 \/ matchedBy(t) = {} THEN t
            ELSE LET e == src(CHOOSE r \in matchedBy(t) : TRUE)
                 IN  [f \in RowFields |->
                        IF f \in SeqToSet(s.update) THEN e[f] ELSE t[f]]
        updated == {t \in tbl : Len(s.update) > 0 /\ matchedBy(t) # {}}
        notMatched == SelectSeq([r \in 1..s.rows |-> r],
                                LAMBDA r : \A t \in tbl : ~matches(r, t))
        inserts == [i \in 1..Len(notMatched) |->
                      [f \in SeqToSet(s.insertCols) |-> src(notMatched[i])[f]]]
        res == InsertAll({upd(t) : t \in tbl}, d, inserts)
    IN  IF s.literals > 0
        THEN [err |-> "ORA-00936", table |-> tbl, n |-> 0]
        ELSE IF unstable
        THEN [err |-> "ORA-30926", table |-> tbl, n |-> 0]
        ELSE IF ~res.ok
        THEN [err |-> "ORA-00001", table |-> tbl, n |-> 0]
        ELSE [err |-> "", table |-> res.table,
              n |-> Cardinality(updated) + Len(notMatched)]

----------------------------------------------------------------------------
(* getDefaultValues / setStructFieldValue *)

OutsOf(vs) == SelectSeq(vs, LAMBDA b : b.k = "out")

\* For every Out bind of stmt.Vars, in order: when the prioritized primary
\* field of the entity is still zero, it is set from the bind's destination.
RECURSIVE SetFromOuts(_, _, _, _)
SetFromOuts(ent, outs, d, ppf) ==
    IF outs = <<>> THEN ent
    ELSE IF ent[ppf] # 0 THEN SetFromOuts(ent, Tail(outs), d, ppf)
    ELSE LET o == Head(outs)
             v == IF o.elem = 0 THEN 0 ELSE d[o.elem][o.field]
         IN  SetFromOuts([ent EXCEPT ![ppf] = v], Tail(outs), d, ppf)

----------------------------------------------------------------------------
(* Inputs of the Create callback *)

\* The row a previous Create left in the table.
BaseRow ==
    [f \in RowFields |-> CASE f = "NAME" -> MaxRows + 1 [] f = "SEQ" -> 0
                           [] OTHER -> 1]

\* the naming strategy is not exercised while a statement is built
NamingIdle ==
    /\ ns = <<>>
    /\ ident = <<>>
    /\ rendered = <<>>
    /\ ddl = <<>>

\* no time value is converted
TimeIdle ==
    /\ tm = <<>>
    /\ bind = <<>>
    /\ stored = <<>>

\* no migrator call is made
MigIdle ==
    /\ mig = <<>>
    /\ dict = <<>>
    /\ migRet = <<>>

\* one statement runs on its own
SharedIdle ==
    /\ schema = <<>>
    /\ stmts = <<>>

ExtIdle == NamingIdle /\ TimeIdle /\ MigIdle /\ SharedIdle

InitCreate ==
    LET DDLs ==
            [pk : {<<>>, <<"ID">>, <<"ID", "K2">>}, autoInc : BOOLEAN,
             seqDefault : BOOLEAN, uidUnique : BOOLEAN]
        OnConflicts ==
            {[present |-> FALSE, target |-> "", doUpdates |-> <<>>],
             [present |-> TRUE, target |-> "pk", doUpdates |-> <<>>],
             [present |-> TRUE, target |-> "pk", doUpdates |-> <<"NAME">>],
             [present |-> TRUE, target |-> "uid", doUpdates |-> <<"NAME">>]}
        \* The entities a caller passes: a new entity (ID 0) of uid 1, or an
        \* entity with an explicit key and a uid of its own.
        Entities ==
            {[f \in Fields |-> CASE f = "ID" -> i
                                 [] f = "UID" -> IF i = 0 THEN 1 ELSE i
                                 [] f = "K2" -> 1 [] OTHER -> 0] : i \in 0..MaxId}
        \* Row i of a batch carries the name i.
        Dests(n) ==
            {[i \in 1..n |-> [x[i] EXCEPT !["NAME"] = i]] : x \in [1..n -> Entities]}
    IN
    /\ cfg \in [ddl : DDLs, hasSchema : BOOLEAN,
                destKind : {"struct", "slice", "maps"},
                onConflict : OnConflicts, userReturning : BOOLEAN,
                dryRun : BOOLEAN, seeded : BOOLEAN]
    /\ cfg.hasSchema <=> cfg.destKind # "maps"
    /\ dest \in UNION {Dests(n) : n \in 0..MaxRows}
    /\ cfg.destKind = "struct" => Len(dest) = 1
    /\ table = IF cfg.seeded THEN {BaseRow} ELSE {}
    /\ dbError \in {<<>>, <<"prior">>}
    /\ dbError # <<>> => ~cfg.dryRun /\ ~cfg.userReturning
    /\ cfg.dryRun \/ dbError # <<>> => ~cfg.seeded
    /\ createValues = [Columns |-> <<>>, Values |-> <<>>]
    /\ path = ""
    /\ sql = NoSQL
    /\ vars = <<>>
    /\ rowsAffected = 0
    /\ pc = "start"
    /\ idx = 0
    /\ execLog = <<>>
    /\ conds = <<>>
    /\ where = <<>>
    /\ whereSQL = <<>>
    /\ clauses = {}
    /\ ExtIdle

----------------------------------------------------------------------------
(* The Create callback *)

\* db.Error != nil on entry: the callback returns at once.
CreateSkip ==
    /\ pc = "start"
    /\ dbError # <<>>
    /\ pc' = "done"
    /\ UNCHANGED <<extVars, cfg, dest, table, createValues, path, sql, vars, dbError,
                   rowsAffected, idx, execLog, whereVars>>

\* Lines 26-62: convert the destination, choose the path, build the statement.
\* On the INSERT path line 53 reads createValues.Values[0]: with no row the
\* index is out of range and the callback panics.
CreateBuild ==
    /\ pc = "start"
    /\ dbError = <<>>
    /\ LET cv == ConvertToCreateValues(cfg, dest)
           merge == MergeCreate(cfg, cv)
           ins == InsertBuild(cfg, cv, dest)
           errs == IF EmptySlice(cfg, dest) THEN <<ErrEmptySlice>> ELSE <<>>
       IN  /\ dbError' = errs
           /\ IF HasConflict(cfg, cv)
              THEN /\ path' = "MERGE"
                   /\ sql' = merge.sql
                   /\ vars' = merge.vars
                   /\ createValues' = cv
                   /\ pc' = IF cfg.dryRun \/ errs # <<>> THEN "done" ELSE "exec"
              ELSE IF cv.Values = <<>>
              THEN /\ path' = "INSERT"
                   /\ sql' = NoSQL
                   /\ vars' = <<>>
                   /\ createValues' = cv
                   /\ pc' = "panic"
              ELSE /\ path' = "INSERT"
                   /\ sql' = ins.sql
                   /\ vars' = ins.vars
                   /\ createValues' = ins.cv
                   /\ pc' = IF cfg.dryRun \/ errs # <<>> THEN "done" ELSE "exec"
    /\ idx' = 1
    /\ UNCHANGED <<extVars, cfg, dest, table, rowsAffected, execLog, whereVars>>

\* Lines 63-68: the MERGE is executed once.
CreateExecMerge ==
    /\ pc = "exec"
    /\ path = "MERGE"
    /\ LET r == ExecMerge(table, cfg.ddl, sql, vars)
       IN  /\ table' = r.table
           /\ dbError' = IF r.err = "" THEN dbError ELSE Append(dbError, r.err)
           /\ rowsAffected' = IF r.err = "" THEN r.n ELSE rowsAffected
    /\ execLog' = Append(execLog, [verb |-> "MERGE", row |-> 0])
    /\ pc' = "done"
    /\ UNCHANGED <<extVars, cfg, dest, createValues, path, sql, vars, idx, whereVars>>

\* Lines 70-73: the values of row idx do not fit into stmt.Vars.
CreateBindPanic ==
    /\ pc = "exec"
    /\ path = "INSERT"
    /\ Len(createValues.Values[idx]) > Len(vars)
    /\ pc' = "panic"
    /\ UNCHANGED <<extVars, cfg, dest, table, createValues, path, sql, vars, dbError,
                   rowsAffected, idx, execLog, whereVars>>

\* Lines 70-84: one iteration of the batched INSERT loop: bind row idx,
\* execute, let the driver write the RETURNING outputs through the Out binds,
\* then getDefaultValues.
CreateExecRow ==
    /\ pc = "exec"
    /\ path = "INSERT"
    /\ Len(createValues.Values[idx]) <= Len(vars)
    /\ LET values == createValues.Values[idx]
           bound == [i \in 1..Len(vars) |->
                       IF i <= Len(values) THEN values[i] ELSE vars[i]]
           r == ExecInsert(table, cfg.ddl, sql, bound)
           outs == OutsOf(bound)
           written == IF r.err # "" THEN dest
                      ELSE [j \in 1..Len(dest) |->
                              [f \in Fields |->
                                 IF \E i \in 1..Len(outs) :
                                       outs[i].elem = j /\ outs[i].field = f
                                 THEN r.row[f] ELSE dest[j][f]]]
           errs == IF r.err = "" THEN dbError ELSE Append(dbError, r.err)
           fetch == /\ errs = <<>>
                    /\ cfg.hasSchema
                    /\ Len(FieldsWithDefaultDBValue(cfg.ddl)) > 0
           ppf == PrioritizedPrimaryField(cfg.ddl)
           nilDeref == fetch /\ ppf = "" /\ Len(outs) > 0
       IN  /\ vars' = bound
           /\ table' = r.table
           /\ dbError' = errs
           /\ rowsAffected' = IF errs = <<>> THEN rowsAffected + r.n ELSE rowsAffected
           /\ dest' = IF fetch /\ ~nilDeref
                      THEN [written EXCEPT ![idx] = SetFromOuts(written[idx], outs, written, ppf)]
                      ELSE written
           /\ pc' = IF nilDeref THEN "panic"
                    ELSE IF idx = Len(createValues.Values) THEN "done" ELSE "exec"
    /\ execLog' = Append(execLog, [verb |-> "INSERT", row |-> idx])
    /\ idx' = idx + 1
    /\ UNCHANGED <<extVars, cfg, createValues, path, sql, whereVars>>

NextCreate ==
    \/ CreateSkip
    \/ CreateBuild
    \/ CreateExecMerge
    \/ CreateBindPanic
    \/ CreateExecRow

SpecCreate == InitCreate /\ [][NextCreate]_allvars

----------------------------------------------------------------------------
(* Claims about the Create callback *)

C2_UpsertOnUniqueColumnUpdates ==
    ( /\ pc = "done"
      /\ execLog # <<>>
      /\ cfg.seeded
      /\ cfg.ddl.uidUnique /\ cfg.ddl.autoInc /\ cfg.ddl.pk = <<"ID">>
      /\ cfg.onConflict.present /\ cfg.onConflict.target = "uid"
      /\ cfg.onConflict.doUpdates = <<"NAME">>
      /\ Len(dest) = 1
      /\ dest[1]["UID"] = BaseRow["UID"]
      /\ "ID" \notin SeqToSet(createValues.Columns) )
    => /\ dbError = <<>>
       /\ Cardinality({t \in table : t["UID"] = dest[1]["UID"]}) = 1
       /\ \A t \in table : t["UID"] = dest[1]["UID"] => t["NAME"] = dest[1]["NAME"]

\* C3: on the MERGE path the statement is a MERGE INTO without a RETURNING
\* clause and without an Out bind in stmt.Vars, whatever default-valued
\* fields the schema has and whether or not the caller attached RETURNING.
C3_MergeHasNoReturning ==
    path = "MERGE" =>
        /\ sql.verb = "MERGE"
        /\ ~sql.returningKw
        /\ sql.retCols = <<>>
        /\ sql.into = 0
        /\ \A i \in 1..Len(vars) : vars[i].k # "out"

C3_Witness ==
    /\ pc = "done"
    /\ path = "MERGE"
    /\ cfg.userReturning
    /\ cfg.ddl.seqDefault
    /\ cfg.ddl.autoInc

\* C4: a batch MERGE of three rows in which two rows share the primary key
\* leaves exactly two rows in the (previously empty) table, and the row whose
\* key appears twice is there once, with the values of its first occurrence.
C4_BatchMergeKeepsFirstOfDuplicateKey ==
    ( /\ pc = "done"
      /\ path = "MERGE"
      /\ execLog # <<>>
      /\ ~cfg.seeded
      /\ Len(dest) = 3
      /\ \A i \in 1..3 : dest[i]["ID"] # 0
      /\ Cardinality({dest[i]["ID"] : i \in 1..3}) = 2 )
    => /\ Cardinality(table) = 2
       /\ \A i \in 1..3 :
            (\A j \in 1..(i - 1) : dest[j]["ID"] # dest[i]["ID"]) =>
               Cardinality({t \in table : t["UID"] = dest[i]["UID"]
                                          /\ t["NAME"] = dest[i]["NAME"]}) = 1

\* C5: on the batched INSERT path the rows are executed one at a time in
\* input order; the Out binds of the execution of row i all point into
\* element i, the RETURNING outputs of row i are in element i when the
\* execution returns, and no other element is written.
C5_RowOutputsGoToSameIndex ==
    [][ (path = "INSERT" /\ Len(execLog') = Len(execLog) + 1) =>
          LET i == execLog'[Len(execLog')].row
          IN  /\ i = Len(execLog) + 1
              /\ \A k \in 1..Len(vars') : vars'[k].k = "out" => vars'[k].elem = i
              /\ \A j \in 1..Len(dest) : j # i => dest'[j] = dest[j]
              /\ table' # table =>
                    LET new == CHOOSE t \in table' \ table : TRUE
                    IN  \A k \in 1..Len(sql.retCols) :
                           dest'[i][sql.retCols[k]] = new[sql.retCols[k]]
      ]_allvars

\* Two rows were executed, each received its own server-assigned values, the
\* third is not bound yet.
C5_Witness ==
    /\ pc = "exec"
    /\ path = "INSERT"
    /\ Len(dest) = 3
    /\ idx = 3
    /\ dbError = <<>>
    /\ dest[1]["ID"] # 0 /\ dest[2]["ID"] # 0 /\ dest[1]["ID"] # dest[2]["ID"]
    /\ dest[1]["SEQ"] # 0 /\ dest[2]["SEQ"] # 0
    /\ dest[3]["ID"] = 0 /\ dest[3]["SEQ"] = 0

\* C6: on the batched INSERT path no row is executed once an error has been
\* recorded.
C6_NoExecutionAfterError ==
    [][ Len(execLog') > Len(execLog) => dbError = <<>> ]_allvars

----------------------------------------------------------------------------
(* WHERE conditions and the WHERE clause builder of the dialect *)

MaxConds == 2

MaxIn == 1

\* chunk(values, 1000)
ChunkSize == 1000

\* TestChunkIn: maxIds := make([]uuid.UUID, 2050)
TestIds == 2050

Sizes == {ChunkSize, ChunkSize + 1, TestIds}

Ids(n) == [i \in 1..n |-> i]

\* A condition of the WHERE clause.
\*   "IN"        clause.IN{Column, Values: v1, ..., vN}
\*   "INSlice"   clause.IN{Column, Values: []any{ids}}, ids a slice of N values
\*   "ExprIN"    clause.Expr{SQL: `col IN ?`, Vars: []any{ids}}
\*   "ExprNotIN" clause.Expr{SQL: `col NOT IN ?`, Vars: []any{ids}}
\*   "Eq"        clause.Eq{Column, Value}
\*   "ExprEq"    clause.Expr{SQL: `col = ?`, Vars: []any{v}}
\*   "SoftDelete" the predicate the soft-delete clause of the schema adds
\*   "Or"        clause.Or(clause.IN{Column, chunks[1]}, clause.IN{...}, ...)
\* not: the condition is wrapped in clause.Not(...).
Cond(t, c, vs, neg) ==
    [t |-> t, col |-> c, values |-> vs, not |-> neg, chunks |-> <<>>]

InKinds == {"IN", "INSlice", "ExprIN", "ExprNotIN"}

\* The number of conditions that carry a list of ids.
NumIn(cs) == Len(SelectSeq(cs, LAMBDA c : c.t \in InKinds))

RECURSIVE chunk(_, _)
chunk(in, n) ==
    IF Len(in) > n
    THEN <<SubSeq(in, 1, n)>> \o chunk(SubSeq(in, n + 1, Len(in)), n)
    ELSE IF Len(in) > 0 THEN <<in>> ELSE <<>>

\* The loop of the WHERE builder over Exprs: only a clause.IN that is itself
\* an element of Exprs is rewritten, and only when the statement has a
\* schema.
RewriteWhere(hasSchema, exprs) ==
    LET RewriteExpr(x) ==
            IF hasSchema /\ x.t = "IN" /\ ~x.not /\ Len(x.values) > ChunkSize
            THEN [x EXCEPT !.t = "Or", !.values = <<>>,
                           !.chunks = chunk(x.values, ChunkSize)]
            ELSE x
    IN  [i \in 1..Len(exprs) |-> RewriteExpr(exprs[i])]

\* A token of the WHERE text: a comparison of a column with a parenthesised
\* list of n placeholders, or a connective.
Tok(op, c, vs) == [tok |-> op, col |-> c, n |-> Len(vs)]

\* clause.IN.Build / NegationBuild: a single value is compared with = / <>.
BuildIN(c, vs, neg) ==
    IF Len(vs) = 1
    THEN Tok(IF neg THEN "<>" ELSE "=", c, vs)
    ELSE Tok(IF neg THEN "NOT IN" ELSE "IN", c, vs)

RECURSIVE JoinToks(_, _)
JoinToks(groups, op) ==
    IF groups = <<>> THEN <<>>
    ELSE IF Len(groups) = 1 THEN Head(groups)
    ELSE Head(groups) \o <<Tok(op, "", <<>>)>> \o JoinToks(Tail(groups), op)

\* Expression.Build of one element of Exprs.
BuildExpr(e) ==
    CASE e.t = "Or" ->
           <<Tok("(", "", <<>>)>>
             \o JoinToks([i \in 1..Len(e.chunks) |->
                            <<BuildIN(e.col, e.chunks[i], FALSE)>>], "OR")
             \o <<Tok(")", "", <<>>)>>
      [] e.t = "IN" -> <<BuildIN(e.col, e.values, e.not)>>
      [] e.t = "INSlice" ->
           <<Tok(IF e.not THEN "<>" ELSE "=", e.col, e.values)>>
      [] e.t = "ExprIN" ->
           (IF e.not THEN <<Tok("NOT", "", <<>>)>> ELSE <<>>)
             \o <<Tok("IN", e.col, e.values)>>
      [] e.t = "ExprNotIN" ->
           (IF e.not THEN <<Tok("NOT", "", <<>>)>> ELSE <<>>)
             \o <<Tok("NOT IN", e.col, e.values)>>
      [] e.t \in {"Eq", "ExprEq"} -> <<Tok("=", e.col, e.values)>>
      [] OTHER -> <<Tok("IS NULL", e.col, <<>>)>>

\* clause.Where.Build: the expressions joined by AND.
BuildWhere(exprs) ==
    JoinToks([i \in 1..Len(exprs) |-> BuildExpr(exprs[i])], "AND")

\* The bind variables stmt.AddVar appended while the text was written.
WhereVars(exprs) ==
    LET vs == Flatten([i \in 1..Len(exprs) |->
                         IF exprs[i].t = "Or" THEN Flatten(exprs[i].chunks)
                         ELSE exprs[i].values])
    IN  [i \in 1..Len(vs) |-> Val(vs[i])]

InitWhere ==
    /\ cfg \in [hasSchema : BOOLEAN]
    /\ dest = <<>>
    /\ table = {}
    /\ createValues = [Columns |-> <<>>, Values |-> <<>>]
    /\ path = ""
    /\ sql = NoSQL
    /\ vars = <<>>
    /\ dbError = <<>>
    /\ rowsAffected = 0
    /\ pc = "cond"
    /\ idx = 0
    /\ execLog = <<>>
    /\ conds = <<>>
    /\ where = <<>>
    /\ whereSQL = <<>>
    /\ clauses = {}
    /\ ExtIdle

\* db.Where(cond): clause.Where.MergeClause appends the condition to Exprs.
Where ==
    /\ pc = "cond"
    /\ Len(conds) < MaxConds
    /\ NumIn(conds) < MaxIn
    /\ \E t \in InKinds, n \in Sizes :
          /\ conds' = Append(conds, [t |-> t, n |-> n, not |-> FALSE])
          /\ where' = Append(where, Cond(t, "USER", Ids(n), FALSE))
    /\ clauses' = clauses \cup {"WHERE"}
    /\ UNCHANGED <<extVars, cfg, dest, table, createValues, path, sql, vars, dbError,
                   rowsAffected, pc, idx, execLog, whereSQL>>

\* db.Not(cond): the condition is appended wrapped in clause.Not.
Not ==
    /\ pc = "cond"
    /\ Len(conds) < MaxConds
    /\ NumIn(conds) < MaxIn
    /\ \E t \in InKinds \ {"ExprNotIN"}, n \in Sizes :
          /\ conds' = Append(conds, [t |-> t, n |-> n, not |-> TRUE])
          /\ where' = Append(where, Cond(t, "USER", Ids(n), TRUE))
    /\ clauses' = clauses \cup {"WHERE"}
    /\ UNCHANGED <<extVars, cfg, dest, table, createValues, path, sql, vars, dbError,
                   rowsAffected, pc, idx, execLog, whereSQL>>

\* db.Where(`"NAME" = ?`, v)
WhereEq ==
    /\ pc = "cond"
    /\ Len(conds) < MaxConds
    /\ conds' = Append(conds, [t |-> "ExprEq", n |-> 1, not |-> FALSE])
    /\ \E v \in {1, BaseRow["NAME"]} :
          where' = Append(where, Cond("ExprEq", "NAME", <<v>>, FALSE))
    /\ clauses' = clauses \cup {"WHERE"}
    /\ UNCHANGED <<extVars, cfg, dest, table, createValues, path, sql, vars, dbError,
                   rowsAffected, pc, idx, execLog, whereSQL>>

\* clauseBuilders["WHERE"]: rewrite Exprs in place, then c.Build(builder).
WhereBuilder ==
    /\ pc = "cond"
    /\ "WHERE" \in clauses
    /\ where' = RewriteWhere(cfg.hasSchema, where)
    /\ whereSQL' = BuildWhere(where')
    /\ vars' = vars \o WhereVars(where')
    /\ pc' = "built"
    /\ UNCHANGED <<extVars, cfg, dest, table, createValues, path, sql, dbError,
                   rowsAffected, idx, execLog, conds, clauses>>

NextWhere ==
    \/ Where
    \/ Not
    \/ WhereEq
    \/ WhereBuilder

SpecWhere == InitWhere /\ [][NextWhere]_allvars

----------------------------------------------------------------------------
(* Claims about the WHERE builder *)

\* C8: once the WHERE builder has run, every IN node of the clause whose
\* value list has N > 1000 entries has been replaced by an OR of exactly
\* ceil(N/1000) IN nodes on the same column, each with at most 1000 values,
\* and the chunks concatenated in order are the original value list.
C8_EveryLongInIsChunked ==
    pc = "built" =>
        \A i \in 1..Len(conds) :
            (conds[i].t = "IN" /\ conds[i].n > ChunkSize) =>
                /\ where[i].t = "Or"
                /\ where[i].col = "USER"
                /\ Len(where[i].chunks)
                     = (conds[i].n + ChunkSize - 1) \div ChunkSize
                /\ \A k \in 1..Len(where[i].chunks) :
                      Len(where[i].chunks[k]) \in 1..ChunkSize
                /\ Flatten(where[i].chunks) = Ids(conds[i].n)

\* C9: a condition in expression form (`col IN ?`, `col NOT IN ?`, or an IN
\* node whose single value is a slice) with 2050 values, on a statement with
\* a schema, yields a WHERE text whose lists all have at most 1000
\* placeholders and are joined by OR.
C9_ExpressionFormIsChunked ==
    ( /\ pc = "built"
      /\ cfg.hasSchema
      /\ Len(conds) = 1
      /\ conds[1].t \in {"ExprIN", "ExprNotIN", "INSlice"}
      /\ ~conds[1].not
      /\ conds[1].n = TestIds )
    => /\ \A k \in 1..Len(whereSQL) :
             whereSQL[k].n > 0 =>
                /\ whereSQL[k].tok \in {"IN", "NOT IN"}
                /\ whereSQL[k].n <= ChunkSize
       /\ \A k \in 1..Len(whereSQL) : whereSQL[k].tok # "AND"
       /\ Len(SelectSeq(whereSQL, LAMBDA t : t.n > 0)) > 1

----------------------------------------------------------------------------
(* The Update and Delete callbacks *)

\* The error go-ora returns when a statement with Out binds touches no row.
PointerTypeError == "output parameter should be pointer type"

ErrMissingWhereClause == "WHERE conditions required"

\* The WHERE conditions for the non-zero primary fields of the entity.
PrimaryWhere(d, ent, kind) ==
    LET pk == SelectSeq(d.pk, LAMBDA f : ent[f] # 0)
    IN  [i \in 1..Len(pk) |-> Cond(kind, pk[i], <<ent[pk[i]]>>, FALSE)]

\* ConvertToAssignments: the SET list, the conditions it adds to WHERE and the
\* model after assignValue.  A map carries the entry NAME (c.set, 0: no
\* entry); a model that is its own destination assigns its non-zero fields
\* that are not primary keys.
ConvertToAssignments(c, ent) ==
    LET own == SelectSeq(DBNames, LAMBDA f :
                   f \notin SeqToSet(c.ddl.pk) /\ ent[f] # 0)
        set == IF c.destKind = "map"
               THEN IF c.set = 0 THEN <<>>
                    ELSE <<[col |-> "NAME", v |-> c.set]>>
               ELSE [i \in 1..Len(own) |-> [col |-> own[i], v |-> ent[own[i]]]]
    IN  [set   |-> set,
         where |-> PrimaryWhere(c.ddl, ent, "Eq"),
         ent   |-> [f \in Fields |->
                      IF \E i \in 1..Len(set) : set[i].col = f
                      THEN set[CHOOSE i \in 1..Len(set) : set[i].col = f].v
                      ELSE ent[f]]]

\* The soft-delete clause of the schema: one predicate and the marker.
SoftDeleteWhere(c) ==
    IF c.softDelete THEN <<Cond("SoftDelete", "DELETED_AT", <<>>, FALSE)>>
    ELSE <<>>

SoftDeleteMarker(c) ==
    IF c.softDelete THEN {"soft_delete_enabled", "WHERE"} ELSE {}

\* A guard that counts the soft-delete predicate as a condition.
MissingWhereCountsSoftDelete(c, cl, w, errs) ==
    /\ ~c.allowGlobalUpdate
    /\ errs = <<>>
    /\ ~("WHERE" \in cl)

\* checkMissingWhereConditions: TRUE when ErrMissingWhereClause is added.
MissingWhere(c, cl, w, errs) ==
    /\ ~c.allowGlobalUpdate
    /\ errs = <<>>
    /\ ~ IF "WHERE" \in cl /\ "soft_delete_enabled" \in cl
         THEN Len(w) > 1
         ELSE "WHERE" \in cl

\* The Out binds of the RETURNING clause for the given columns.
ReturningInto(names) == [i \in 1..Len(names) |-> Out(1, names[i])]

Matched(tbl, w) ==
    LET Holds(x, t) ==
            CASE x.t \in {"Eq", "ExprEq"} -> t[x.col] = x.values[1]
              [] x.t = "IN" -> (t[x.col] \in SeqToSet(x.values)) # x.not
              [] OTHER -> TRUE
    IN  {t \in tbl : \A i \in 1..Len(w) : Holds(w[i], t)}

\* UPDATE t SET cols = vs[1..] WHERE w [RETURNING ... INTO ...]
ExecUpdate(tbl, s, w, vs) ==
    LET m == Matched(tbl, w)
        new(t) == [f \in RowFields |->
                     IF f \in SeqToSet(s.cols)
                     THEN vs[IndexOf(s.cols, f)].v ELSE t[f]]
    IN  IF m = {} /\ OutsOf(vs) # <<>>
        THEN [err |-> PointerTypeError, table |-> tbl, n |-> 0, rows |-> {}]
        ELSE [err |-> "", table |-> (tbl \ m) \cup {new(t) : t \in m},
              n |-> Cardinality(m), rows |-> {new(t) : t \in m}]

\* DELETE FROM t WHERE w RETURNING ... INTO ...
ExecDelete(tbl, w, vs) ==
    LET m == Matched(tbl, w)
    IN  IF m = {} /\ OutsOf(vs) # <<>>
        THEN [err |-> PointerTypeError, table |-> tbl, n |-> 0, rows |-> {}]
        ELSE [err |-> "", table |-> tbl \ m, n |-> Cardinality(m), rows |-> m]

\* The destination after the driver has written the returned row through the
\* Out binds.
WriteOuts(d, vs, rows) ==
    IF rows = {} THEN d
    ELSE LET row == CHOOSE r \in rows : TRUE
             outs == OutsOf(vs)
         IN  [j \in 1..Len(d) |->
                [f \in Fields |->
                   IF \E i \in 1..Len(outs) :
                         outs[i].elem = j /\ outs[i].field = f
                   THEN row[f] ELSE d[j][f]]]

\* Dialector.Translate: an error that carries the pointer-type text is
\* replaced by the chain it wraps; the driver's error wraps nothing.
Translate(err) == IF err = PointerTypeError THEN "" ELSE err

\* db.AddError
AddError(c, errs, err) ==
    LET e == IF c.translateError THEN Translate(err) ELSE err
    IN  IF e = "" THEN errs ELSE Append(errs, e)

\* An Update that hands every execution error to db.AddError.
UpdateErrorAlwaysAdded(c, errs, err) == AddError(c, errs, err)

\* Update, lines 53-61: the pointer-type error is dropped, any other error
\* is added.
UpdateError(c, errs, err) ==
    IF err = PointerTypeError THEN errs ELSE AddError(c, errs, err)

\* The statement as Update / Delete receive it; conditions are added by
\* WhereEq before the callback starts.
InitUpdate ==
    LET UserDDL ==
            [pk |-> <<"ID">>, autoInc |-> TRUE, seqDefault |-> FALSE,
             uidUnique |-> FALSE]
        \* The models a caller passes to Update / Delete.
        Models ==
            {[f \in Fields |-> CASE f = "ID" -> i [] f = "NAME" -> nm
                                 [] OTHER -> 0] :
                i \in 0..MaxId, nm \in {0, BaseRow["NAME"]}}
    IN
    /\ cfg \in [op : {"update", "delete"}, ddl : {UserDDL}, hasSchema : {TRUE},
                allowGlobalUpdate : BOOLEAN, softDelete : BOOLEAN,
                destKind : {"model", "map"}, set : {0, 1, BaseRow["NAME"]},
                dryRun : BOOLEAN, translateError : BOOLEAN, model : Models]
    /\ cfg.op = "delete" => cfg.destKind = "model"
    /\ cfg.destKind = "model" => cfg.set = 0
    /\ cfg.op = "update" => ~cfg.translateError
    /\ dest = <<cfg.model>>
    /\ table = {BaseRow}
    /\ clauses \in {{}, {"RETURNING"}}
    /\ ExtIdle
    /\ dbError \in {<<>>, <<"prior">>}
    /\ dbError # <<>> => ~cfg.dryRun /\ ~cfg.softDelete /\ ~cfg.translateError
    /\ createValues = [Columns |-> <<>>, Values |-> <<>>]
    /\ path = ""
    /\ sql = NoSQL
    /\ vars = <<>>
    /\ rowsAffected = 0
    /\ pc = "cond"
    /\ idx = 0
    /\ execLog = <<>>
    /\ conds = <<>>
    /\ where = <<>>
    /\ whereSQL = <<>>

\* Update, lines 18-20: db.Error != nil on entry.
UpdateSkip ==
    /\ pc = "cond"
    /\ cfg.op = "update"
    /\ dbError # <<>>
    /\ pc' = "done"
    /\ UNCHANGED <<extVars, cfg, dest, table, createValues, path, sql, vars, dbError,
                   rowsAffected, idx, execLog, whereVars>>

\* Update, lines 27-41: ConvertToAssignments returns no assignment and the
\* callback returns; the clauses it added stay on the statement.
UpdateEmpty ==
    /\ pc = "cond"
    /\ cfg.op = "update"
    /\ dbError = <<>>
    /\ LET a == ConvertToAssignments(cfg, dest[1])
       IN  /\ a.set = <<>>
           /\ where' = where \o SoftDeleteWhere(cfg) \o a.where
           /\ clauses' = clauses \cup SoftDeleteMarker(cfg)
                           \cup (IF a.where # <<>> THEN {"WHERE"} ELSE {})
           /\ dest' = <<a.ent>>
    /\ pc' = "done"
    /\ UNCHANGED <<extVars, cfg, table, createValues, path, sql, vars, dbError,
                   rowsAffected, idx, execLog, conds, whereSQL>>

\* Update, lines 27-48: the schema's clauses, the assignments, the statement
\* text with its binds, and the missing-WHERE guard.
UpdateBuild ==
    /\ pc = "cond"
    /\ cfg.op = "update"
    /\ dbError = <<>>
    /\ LET a == ConvertToAssignments(cfg, dest[1])
           cl == clauses \cup SoftDeleteMarker(cfg)
                   \cup (IF a.where # <<>> THEN {"WHERE"} ELSE {})
           w == IF "WHERE" \in cl
                THEN RewriteWhere(cfg.hasSchema,
                                  where \o SoftDeleteWhere(cfg) \o a.where)
                ELSE where
           ret == IF "RETURNING" \in cl /\ cfg.hasSchema THEN DBNames ELSE <<>>
           errs == IF MissingWhere(cfg, cl, w, dbError)
                   THEN Append(dbError, ErrMissingWhereClause) ELSE dbError
       IN  /\ a.set # <<>>
           /\ where' = w
           /\ whereSQL' = IF "WHERE" \in cl THEN BuildWhere(w) ELSE <<>>
           /\ clauses' = cl
           /\ sql' = [NoSQL EXCEPT !.verb = "UPDATE",
                         !.cols = [i \in 1..Len(a.set) |-> a.set[i].col],
                         !.returningKw = "RETURNING" \in cl,
                         !.retCols = ret, !.into = Len(ret)]
           /\ vars' = [i \in 1..Len(a.set) |-> Val(a.set[i].v)]
                        \o WhereVars(w) \o ReturningInto(ret)
           /\ dest' = <<a.ent>>
           /\ dbError' = errs
           /\ pc' = IF ~cfg.dryRun /\ errs = <<>> THEN "exec" ELSE "done"
    /\ UNCHANGED <<extVars, cfg, table, createValues, path, rowsAffected, idx, execLog,
                   conds>>

\* Update, lines 50-67.
UpdateExec ==
    /\ pc = "exec"
    /\ cfg.op = "update"
    /\ LET r == ExecUpdate(table, sql, where, vars)
           errs == UpdateError(cfg, dbError, r.err)
       IN  /\ table' = r.table
           /\ dbError' = errs
           /\ rowsAffected' = IF r.err = PointerTypeError THEN 0
                              ELSE IF errs = <<>> THEN r.n ELSE rowsAffected
           /\ dest' = WriteOuts(dest, vars, r.rows)
           /\ execLog' = Append(execLog, [verb |-> sql.verb, row |-> 0,
                                          err |-> r.err])
    /\ pc' = "done"
    /\ UNCHANGED <<extVars, cfg, createValues, path, sql, vars, idx, whereVars>>

\* Delete, lines 12-14.
DeleteSkip ==
    /\ pc = "cond"
    /\ cfg.op = "delete"
    /\ dbError # <<>>
    /\ pc' = "done"
    /\ UNCHANGED <<extVars, cfg, dest, table, createValues, path, sql, vars, dbError,
                   rowsAffected, idx, execLog, whereVars>>

\* Delete, lines 16-55.  With a soft-delete field the schema's delete clause
\* turns the statement into UPDATE ... SET deleted_at and builds it; otherwise
\* the callback adds the primary-key condition and a RETURNING clause for
\* the primary fields.
DeleteBuild ==
    /\ pc = "cond"
    /\ cfg.op = "delete"
    /\ dbError = <<>>
    /\ LET pkw == PrimaryWhere(cfg.ddl, dest[1], "IN")
           cl == clauses \cup SoftDeleteMarker(cfg)
                   \cup (IF pkw # <<>> THEN {"WHERE"} ELSE {})
                   \cup (IF cfg.softDelete THEN {} ELSE {"RETURNING"})
           w == IF "WHERE" \in cl
                THEN RewriteWhere(cfg.hasSchema,
                                  where \o pkw \o SoftDeleteWhere(cfg))
                ELSE where
           ret == IF cfg.softDelete
                  THEN IF "RETURNING" \in cl THEN DBNames ELSE <<>>
                  ELSE cfg.ddl.pk
           errs == IF MissingWhere(cfg, cl, w, dbError)
                   THEN Append(dbError, ErrMissingWhereClause) ELSE dbError
       IN  /\ where' = w
           /\ whereSQL' = IF "WHERE" \in cl THEN BuildWhere(w) ELSE <<>>
           /\ clauses' = cl
           /\ sql' = [NoSQL EXCEPT
                         !.verb = IF cfg.softDelete THEN "UPDATE" ELSE "DELETE",
                         !.cols = IF cfg.softDelete THEN <<"DELETED_AT">> ELSE <<>>,
                         !.returningKw = "RETURNING" \in cl,
                         !.retCols = ret, !.into = Len(ret)]
           /\ vars' = (IF cfg.softDelete THEN <<Val(1)>> ELSE <<>>)
                        \o WhereVars(w) \o ReturningInto(ret)
           /\ dbError' = errs
           /\ pc' = IF ~cfg.dryRun /\ errs = <<>> THEN "exec" ELSE "done"
    /\ UNCHANGED <<extVars, cfg, dest, table, createValues, path, rowsAffected, idx,
                   execLog, conds>>

\* Delete, lines 57-68.
DeleteExec ==
    /\ pc = "exec"
    /\ cfg.op = "delete"
    /\ LET r == IF sql.verb = "UPDATE"
                THEN ExecUpdate(table, sql, where, vars)
                ELSE ExecDelete(table, where, vars)
           errs == AddError(cfg, dbError, r.err)
       IN  /\ table' = r.table
           /\ dbError' = errs
           /\ rowsAffected' = IF errs = <<>> THEN r.n ELSE rowsAffected
           /\ dest' = WriteOuts(dest, vars, r.rows)
           /\ execLog' = Append(execLog, [verb |-> sql.verb, row |-> 0,
                                          err |-> r.err])
    /\ pc' = "done"
    /\ UNCHANGED <<extVars, cfg, createValues, path, sql, vars, idx, whereVars>>

NextUpdate ==
    \/ WhereEq
    \/ UpdateSkip
    \/ UpdateEmpty
    \/ UpdateBuild
    \/ UpdateExec
    \/ DeleteSkip
    \/ DeleteBuild
    \/ DeleteExec

SpecUpdate == InitUpdate /\ [][NextUpdate]_allvars

----------------------------------------------------------------------------
(* Claims about the Update and Delete callbacks *)

C10_NoRowsLeavesDestinationUnchanged ==
    ( /\ pc = "done"
      /\ cfg.op = "update"
      /\ "RETURNING" \in clauses
      /\ execLog # <<>>
      /\ execLog[1].err = PointerTypeError )
    => /\ dbError = <<>>
       /\ rowsAffected = 0
       /\ dest[1] = cfg.model

\* C10: the execution of an UPDATE ... RETURNING that matches no row returns
\* the driver's pointer-type error; the callback records no error, sets
\* RowsAffected to 0, and the execution writes neither a row nor a field of
\* the destination, which keeps the values the callback assigned to it from
\* the update values before executing.
C10_NoRowsIsNotAFailure ==
    [][ ( /\ cfg.op = "update"
          /\ pc = "exec" /\ pc' = "done"
          /\ "RETURNING" \in clauses
          /\ Matched(table, where) = {} )
        => /\ execLog'[Len(execLog')].err = PointerTypeError
           /\ dbError' = <<>>
           /\ rowsAffected' = 0
           /\ table' = table
           /\ dest' = dest
           /\ cfg.destKind = "map" => dest'[1]["NAME"] = cfg.set
      ]_allvars

\* No row matched; the model carries the new name although nothing was
\* updated.
C10_Witness ==
    /\ pc = "done"
    /\ cfg.op = "update"
    /\ "RETURNING" \in clauses
    /\ execLog # <<>>
    /\ execLog[1].err = PointerTypeError
    /\ dbError = <<>>
    /\ rowsAffected = 0
    /\ table = {BaseRow}
    /\ dest[1]["NAME"] # cfg.model["NAME"]

\* C11: the DELETE statement the Delete callback builds contains a RETURNING
\* clause if and only if the caller attached a RETURNING clause to the
\* statement before the callback ran.
C11_DeleteReturningOnlyWhenAttached ==
    [][ ( /\ cfg.op = "delete"
          /\ pc = "cond"
          /\ sql'.verb = "DELETE" )
        => (sql'.returningKw <=> "RETURNING" \in clauses)
      ]_allvars

\* C12: Create on an empty slice records the empty-slice error and returns
\* without building or executing any statement.
C12_EmptySliceShortCircuits ==
    ( /\ path # ""
      /\ cfg.destKind \in {"slice", "maps"}
      /\ dest = <<>> )
    => /\ pc = "done"
       /\ ErrEmptySlice \in SeqToSet(dbError)
       /\ sql = NoSQL
       /\ execLog = <<>>

(***************************************************************************)
(* SpecNaming: the naming strategy of the dialect.  A name is a sequence   *)
(* of one-character strings; the strategy's functions are operators on     *)
(* such sequences, and an action applies one of them to the input names.   *)
(***************************************************************************)

UpperLetters ==
    <<"A","B","C","D","E","F","G","H","I","J","K","L","M",
      "N","O","P","Q","R","S","T","U","V","W","X","Y","Z">>

LowerLetters ==
    <<"a","b","c","d","e","f","g","h","i","j","k","l","m",
      "n","o","p","q","r","s","t","u","v","w","x","y","z">>

hexdigits ==
    <<"0","1","2","3","4","5","6","7","8","9","A","B","C","D","E","F">>

PosIn(c, seq) == CHOOSE i \in 1..Len(seq) : seq[i] = c

IsCap(c) == \E i \in 1..26 : UpperLetters[i] = c
IsLow(c) == \E i \in 1..26 : LowerLetters[i] = c
IsNum(c) == \E i \in 1..10 : hexdigits[i] = c

UpperChar(c) == IF IsLow(c) THEN UpperLetters[PosIn(c, LowerLetters)] ELSE c
LowerChar(c) == IF IsCap(c) THEN LowerLetters[PosIn(c, UpperLetters)] ELSE c

\* strings.ToUpper
ToUpper(s) == [i \in 1..Len(s) |-> UpperChar(s[i])]

XorBits(a, b) ==
    LET bit(k) == ((a \div k) + (b \div k)) % 2
    IN  bit(1) + 2 * bit(2) + 4 * bit(4) + 8 * bit(8)
        + 16 * bit(16) + 32 * bit(32) + 64 * bit(64) + 128 * bit(128)

\* hash.Write on FNV-1a for the bytes lo..hi of s, the 32-bit sum kept as two
\* 16-bit halves; for every byte: hash ^= byte; hash *= 16777619
\* (0x01000193), modulo 2^32
RECURSIVE fnvWrite(_, _, _, _)
fnvWrite(h, s, lo, hi) ==
    LET \* the byte of a character (ASCII)
        ByteOf(c) ==
            IF IsCap(c) THEN 64 + PosIn(c, UpperLetters)
            ELSE IF IsLow(c) THEN 96 + PosIn(c, LowerLetters)
            ELSE IF IsNum(c) THEN 47 + PosIn(c, hexdigits)
            ELSE IF c = "_" THEN 95
            ELSE IF c = "." THEN 46
            ELSE IF c = "|" THEN 124
            ELSE IF c = "$" THEN 36
            ELSE 34  \* the double quote
        lo1 == (h.lo - (h.lo % 256)) + XorBits(h.lo % 256, ByteOf(s[lo]))
        p0  == lo1 * 403
        mid == (lo + hi) \div 2
        \* the sum after the bytes lo..mid, a value before the next byte is
        \* written
        sum == fnvWrite(h, s, lo, mid)
    IN  IF lo > hi THEN h
        ELSE IF lo = hi
        THEN [hi |-> (h.hi * 403 + lo1 * 256 + (p0 \div 65536)) % 65536,
              lo |-> p0 % 65536]
        ELSE IF sum.lo >= 0 THEN fnvWrite(sum, s, mid + 1, hi) ELSE sum

\* fnv.New32a over the bytes of s; the offset basis is 0x811C9DC5
fnv32a(s) == fnvWrite([hi |-> 33052, lo |-> 40389], s, 1, Len(s))

\* the eight upper-case hexadecimal digits of a 32-bit sum ("%08X")
hexValue(h) ==
    LET Hex4(n) ==
            << hexdigits[((n \div 4096) % 16) + 1],
               hexdigits[((n \div 256) % 16) + 1],
               hexdigits[((n \div 16) % 16) + 1], hexdigits[(n % 16) + 1] >>
    IN  Hex4(h.hi) \o Hex4(h.lo)

\* strcase.ToScreamingDelimited(s, '_', "", screaming): what one byte of s
\* contributes to the result
DelimitedPiece(s, i, screaming) ==
    LET v0        == s[i]
        vIsCap    == IsCap(v0)
        vIsLow    == IsLow(v0)
        v         == IF vIsLow /\ screaming THEN UpperChar(v0)
                     ELSE IF vIsCap /\ ~screaming THEN LowerChar(v0)
                     ELSE v0
        vIsNum    == IsNum(v0)
        hasNext   == i < Len(s)
        nextIsCap == hasNext /\ IsCap(s[i + 1])
        nextIsLow == hasNext /\ IsLow(s[i + 1])
        nextIsNum == hasNext /\ IsNum(s[i + 1])
        changed   == \/ vIsCap /\ (nextIsLow \/ nextIsNum)
                     \/ vIsLow /\ (nextIsCap \/ nextIsNum)
                     \/ vIsNum /\ (nextIsCap \/ nextIsLow)
        prevIsCap == i > 1 /\ IsCap(s[i - 1])
    IN  IF changed
        THEN (IF vIsCap /\ nextIsLow /\ prevIsCap THEN <<"_">> ELSE <<>>)
             \o <<v>>
             \o (IF vIsLow \/ vIsNum \/ nextIsNum THEN <<"_">> ELSE <<>>)
        ELSE IF v \in {"_", "."} THEN <<"_">> ELSE <<v>>

\* strcase.ToScreamingSnake (screaming) and strcase.ToSnake
ToDelimited(s, screaming) ==
    Flatten([i \in 1..Len(s) |-> DelimitedPiece(s, i, screaming)])

\* strcase.ToCamel: capNext is whether the next letter starts a word
\* strcase.ToCamel: capNext is whether the letter at i starts a word; the
\* loop sets it after a byte to FALSE for a letter, to TRUE for a digit, and
\* for any other byte to whether the byte is a delimiter
ToCamel(s) ==
    LET capNext(i) ==
            IF i = 1 THEN TRUE
            ELSE IF IsCap(s[i - 1]) \/ IsLow(s[i - 1]) THEN FALSE
            ELSE IF IsNum(s[i - 1]) THEN TRUE
            ELSE s[i - 1] \in {"_", "."}
        piece(i) ==
            LET v0 == s[i]
                v  == IF capNext(i)
                      THEN UpperChar(v0)
                      ELSE IF i > 1 /\ IsCap(s[i - 1]) /\ IsCap(v0)
                           THEN LowerChar(v0)
                           ELSE v0
            IN  IF IsCap(v0) \/ IsLow(v0) THEN <<v>>
                ELSE IF IsNum(v0) THEN <<v0>>
                ELSE <<>>
    IN  Flatten([i \in 1..Len(s) |-> piece(i)])

\* const sufLen: the underscore and the eight hexadecimal digits
sufLen == 1 + 8

\* the cap Initialize detects for a server older than 12.2
DetectedCap == 30

ScreamingSnakeCase == 0
SnakeCase == 1
CamelCase == 2

\* the reserved words that the modelled names can spell
ReservedWords == { <<"A","S">>, <<"B","Y">>, <<"I","N">> }

IsReservedWord(v) == v \in ReservedWords

IsSafeOracleUnquoted(s) ==
    /\ s # <<>>
    /\ IsCap(s[1])
    /\ \A i \in 1..Len(s) : IsCap(s[i]) \/ IsNum(s[i]) \/ s[i] \in {"_", "$", "#"}
    /\ ~IsReservedWord(ToUpper(s))

IsExplicitQuoted(part) ==
    Len(part) >= 2 /\ part[1] = "\"" /\ part[Len(part)] = "\""

\* the inner text IsExplicitQuoted returns
Inner(part) == SubSeq(part, 2, Len(part) - 1)

\* splitQualified: the input is cut at every dot outside double quotes; the
\* quotes stay in the part; a trailing empty part is dropped
splitQualified(input) ==
    LET quoted(i) ==
            Cardinality({j \in 1..(i - 1) : input[j] = "\""}) % 2 = 1
        all == SplitAt(input, {i \in 1..Len(input) : input[i] = "." /\ ~quoted(i)})
    IN  IF all[Len(all)] = <<>> THEN SubSeq(all, 1, Len(all) - 1) ELSE all

maxLengthOf(n) ==
    IF n.IdentifierMaxLength <= 0 THEN n.capIdentifierMaxLength
    ELSE n.IdentifierMaxLength

shortenWithMax(s, maxLen) ==
    IF Len(s) <= maxLen THEN s
    ELSE IF maxLen <= sufLen THEN hexValue(fnv32a(s))
    ELSE SubSeq(s, 1, maxLen - sufLen) \o <<"_">> \o hexValue(fnv32a(s))

\* the qualifiers as joinQualified writes them: each name capped
cappedParts(n, parts) ==
    [i \in 1..Len(parts) |->
        [name |-> shortenWithMax(parts[i].name, maxLengthOf(n)),
         quoted |-> parts[i].quoted]]

escapeQuotes(s) ==
    Flatten([i \in 1..Len(s) |->
               IF s[i] = "\"" THEN <<"\"", "\"">> ELSE <<s[i]>>])

joinQualified(n, parts) ==
    LET capped == cappedParts(n, parts)
    IN  Flatten([i \in 1..Len(capped) |->
                   (IF i > 1 THEN <<".">> ELSE <<>>)
                   \o (IF capped[i].quoted
                       THEN <<"\"">> \o escapeQuotes(capped[i].name) \o <<"\"">>
                       ELSE capped[i].name)])

toCase(n, part) ==
    IF n.PreferredCase = ScreamingSnakeCase THEN ToDelimited(part, TRUE)
    ELSE IF n.PreferredCase = SnakeCase THEN ToDelimited(part, FALSE)
    ELSE IF n.PreferredCase = CamelCase THEN ToCamel(part)
    ELSE part

normalizePart(n, part) ==
    IF IsExplicitQuoted(part)
    THEN [name |-> Inner(part), quoted |-> TRUE]
    ELSE IF n.PreferredCase = ScreamingSnakeCase
         THEN [name |-> toCase(n, part),
               quoted |-> ~IsSafeOracleUnquoted(toCase(n, part))]
         ELSE IF n.PreferredCase \in {SnakeCase, CamelCase}
              THEN [name |-> toCase(n, part), quoted |-> TRUE]
              ELSE [name |-> ToUpper(part), quoted |-> FALSE]

normalizeParts(n, raw) == [i \in 1..Len(raw) |-> normalizePart(n, raw[i])]

normalizeQualified(n, id) ==
    IF id = <<>> THEN <<>>
    ELSE joinQualified(n, normalizeParts(n, splitQualified(id)))

dictCasePart(n, s) ==
    IF IsExplicitQuoted(s) THEN Inner(s)
    ELSE IF n.PreferredCase \in {SnakeCase, CamelCase} THEN s
    ELSE IF n.PreferredCase = ScreamingSnakeCase
         THEN IF IsSafeOracleUnquoted(ToUpper(s)) THEN ToUpper(s) ELSE s
         ELSE ToUpper(s)

dictQualifiedParts(n, id) ==
    LET raw == splitQualified(id)
    IN  IF Len(raw) = 0 THEN [owner |-> <<>>, object |-> <<>>, hasOwner |-> FALSE]
        ELSE IF Len(raw) = 1
             THEN [owner |-> <<>>, object |-> dictCasePart(n, raw[1]),
                   hasOwner |-> FALSE]
             ELSE [owner |-> dictCasePart(n, raw[1]),
                   object |-> dictCasePart(n, raw[2]), hasOwner |-> TRUE]

\* genToken with one column, as IndexName, UniqueName and CheckerName call it
genToken(n, kind, tableOrObject, col) ==
    LET maxLength == maxLengthOf(n)
        d         == dictQualifiedParts(n, tableOrObject)
        baseObj   == toCase(n, d.object)
        base      == kind \o <<"_">> \o baseObj \o <<"_">> \o toCase(n, col)
        seed      == d.owner \o <<".">> \o d.object \o <<"|">> \o dictCasePart(n, col)
        suffix    == <<"_">> \o hexValue(fnv32a(seed))
        maxObj    == maxLength - (Len(kind) + 1 + Len(suffix))
        cut       == IF maxObj > Len(baseObj) THEN Len(baseObj) ELSE maxObj
    IN  IF Len(base) <= maxLength THEN base
        ELSE IF maxObj < 1
             THEN IF Len(kind \o suffix) > maxLength
                  THEN SubSeq(kind \o suffix, 1, maxLength)
                  ELSE kind \o suffix
             ELSE kind \o <<"_">> \o SubSeq(baseObj, 1, cut) \o suffix

\* inflection.Plural on the regular nouns of the model
Plural(str) ==
    IF str # <<>> /\ str[Len(str)] \in {"s", "S"} THEN str ELSE str \o <<"s">>

\* the qualifiers TableName hands to joinQualified
tableQualifiers(n, str0) ==
    LET p           == n.TablePrefix
        isSchema    == \E i \in 1..Len(p) : p[i] = "."
        trimmed     == IF p # <<>> /\ p[Len(p)] = "." THEN SubSeq(p, 1, Len(p) - 1) ELSE p
        schemaQuals == IF isSchema THEN splitQualified(trimmed) ELSE <<>>
        basePrefix  == IF isSchema THEN <<>> ELSE p
        str1        == IF IsExplicitQuoted(str0) THEN str0
                       ELSE IF ~n.SingularTable THEN Plural(str0) ELSE str0
        str2        == IF basePrefix # <<>>
                       THEN IF IsExplicitQuoted(str1)
                            THEN <<"\"">> \o basePrefix \o Inner(str1) \o <<"\"">>
                            ELSE basePrefix \o str1
                       ELSE str1
    IN  normalizeParts(n, schemaQuals) \o <<normalizePart(n, str2)>>

TableName(n, str) == joinQualified(n, tableQualifiers(n, str))

ColumnName(n, column) ==
    IF IsExplicitQuoted(column) THEN Inner(column) ELSE toCase(n, column)

\* validUnquotedRE of the earlier strategy: ^[A-Za-z][A-Za-z0-9_$#]{0,64}$
validUnquoted(s) ==
    /\ s # <<>>
    /\ IsCap(s[1]) \/ IsLow(s[1])
    /\ \A i \in 2..Len(s) :
           IsCap(s[i]) \/ IsLow(s[i]) \/ IsNum(s[i]) \/ s[i] \in {"_", "$", "#"}
    /\ Len(s) <= 65

quoteIdent(s) ==
    IF IsExplicitQuoted(s) THEN s ELSE <<"\"">> \o escapeQuotes(s) \o <<"\"">>

\* normalizeIdent of the earlier strategy: the text, whether it is quoted,
\* and the error it returns ("" for nil)
normalizeIdent(n, name) ==
    IF name = <<>>
    THEN [text |-> <<>>, quoted |-> FALSE, err |-> "empty identifier"]
    ELSE IF IsExplicitQuoted(name)
    THEN [text |-> name, quoted |-> TRUE, err |-> ""]
    ELSE IF ~n.NamingCaseSensitive
    THEN IF ~validUnquoted(name)
         THEN [text |-> <<>>, quoted |-> FALSE, err |-> "not representable unquoted"]
         ELSE IF IsReservedWord(ToUpper(name))
              THEN [text |-> quoteIdent(ToUpper(name)), quoted |-> TRUE, err |-> ""]
              ELSE [text |-> toCase(n, name), quoted |-> FALSE, err |-> ""]
    ELSE IF validUnquoted(name) /\ ~IsReservedWord(ToUpper(name))
         THEN [text |-> toCase(n, name), quoted |-> FALSE, err |-> ""]
         ELSE [text |-> quoteIdent(ToUpper(name)), quoted |-> TRUE, err |-> ""]

\* strings.Split(in, ".")
\* normalizeQualifiedIdent of the earlier strategy: the input comes back
\* unchanged when a part cannot be normalized
normalizeQualifiedIdent(n, in) ==
    LET \* strings.Split(in, ".")
        parts == SplitAt(in, {i \in 1..Len(in) : in[i] = "."})
        outs  == [i \in 1..Len(parts) |-> normalizeIdent(n, parts[i])]
    IN  IF \E i \in 1..Len(parts) : outs[i].err # ""
        THEN in
        ELSE Flatten([i \in 1..Len(parts) |->
                        (IF i > 1 THEN <<".">> ELSE <<>>) \o outs[i].text])

\* ---- inputs -------------------------------------------------------------

MaxPad == 9

Pad(k) == [i \in 1..k |-> "n"]

\* the beginnings of the logical names: plain, camel-cased, starting with a
\* digit, a reserved word, and schema-qualified; padded up to and beyond the
\* identifier cap
Names ==
    LET Pads == (0..MaxPad) \cup {DetectedCap + 1}
        Stems == { <<"a","b">>, <<"a","B">>, <<"1","a">>, <<"a","s">>,
                   <<"s",".","a","b">> }
    IN
    {stem \o Pad(k) : stem \in Stems, k \in Pads}
    \cup {<<"\"">> \o <<"a","B">> \o Pad(k) \o <<"\"">> : k \in Pads}

Columns == { <<"i","d">>, <<"a","B">> }

\* a NamingStrategy as Initialize or a caller can construct it; Initialize
\* forces case-sensitive naming for SnakeCase and CamelCase
NamingStrategies ==
    { n \in [IdentifierMaxLength : {0, sufLen - 4, sufLen + 1},
             capIdentifierMaxLength : {DetectedCap},
             PreferredCase : {ScreamingSnakeCase, SnakeCase, CamelCase},
             NamingCaseSensitive : BOOLEAN,
             SingularTable : BOOLEAN,
             TablePrefix : {<<>>, <<"s",".">>}] :
        n.PreferredCase \in {SnakeCase, CamelCase} => n.NamingCaseSensitive }

\* the statement under construction is not part of the naming strategy
StmtIdle ==
    /\ cfg = <<>>
    /\ dest = <<>>
    /\ table = {}
    /\ createValues = [Columns |-> <<>>, Values |-> <<>>]
    /\ path = ""
    /\ sql = NoSQL
    /\ vars = <<>>
    /\ dbError = <<>>
    /\ rowsAffected = 0
    /\ idx = 0
    /\ execLog = <<>>
    /\ conds = <<>>
    /\ where = <<>>
    /\ whereSQL = <<>>
    /\ clauses = {}
    /\ SharedIdle

stmtVars == <<cfg, dest, table, createValues, path, sql, vars, dbError,
              rowsAffected, idx, execLog, whereVars, sharedVars>>

InitNaming ==
    /\ ns \in NamingStrategies
    /\ ident \in [name : Names, column : Columns]
    /\ rendered = <<>>
    /\ ddl = <<>>
    /\ pc = "name"
    /\ StmtIdle
    /\ TimeIdle
    /\ MigIdle

\* what a naming function returned: the text, the dotted parts it is made
\* of, and the error handed to the caller (no naming function returns one)
Rendered(op, text, parts) ==
    [op |-> op, text |-> text, parts |-> parts, err |-> ""]

NamingTableName ==
    /\ pc = "name"
    /\ rendered' = Rendered("TableName", TableName(ns, ident.name),
                            cappedParts(ns, tableQualifiers(ns, ident.name)))
    /\ pc' = "named"
    /\ UNCHANGED <<ns, ident, ddl, stmtVars, timeVars, migVars>>

NamingJoinTableName ==
    /\ pc = "name"
    /\ rendered' = Rendered("JoinTableName", TableName(ns, ident.name),
                            cappedParts(ns, tableQualifiers(ns, ident.name)))
    /\ pc' = "named"
    /\ UNCHANGED <<ns, ident, ddl, stmtVars, timeVars, migVars>>

NamingColumnName ==
    /\ pc = "name"
    /\ LET n == ColumnName(ns, ident.name)
       IN  rendered' = Rendered("ColumnName", n, <<[name |-> n, quoted |-> FALSE]>>)
    /\ pc' = "named"
    /\ UNCHANGED <<ns, ident, ddl, stmtVars, timeVars, migVars>>

\* CheckerName, IndexName and UniqueName
NamingGenToken ==
    /\ pc = "name"
    /\ \E kind \in { <<"C","K">>, <<"I","D","X">>, <<"U","K">> } :
          LET n == genToken(ns, kind, ident.name, ident.column)
          IN  rendered' = Rendered("genToken", n, <<[name |-> n, quoted |-> FALSE]>>)
    /\ pc' = "named"
    /\ UNCHANGED <<ns, ident, ddl, stmtVars, timeVars, migVars>>

\* the earlier strategy's rendering of a qualified name
NamingNormalizeQualifiedIdent ==
    /\ pc = "name"
    /\ LET n == normalizeQualifiedIdent(ns, ident.name)
       IN  rendered' = Rendered("normalizeQualifiedIdent", n,
                                [i \in 1..Len(splitQualified(n)) |->
                                    [name |-> splitQualified(n)[i], quoted |-> FALSE]])
    /\ pc' = "named"
    /\ UNCHANGED <<ns, ident, ddl, stmtVars, timeVars, migVars>>

\* the name Oracle stores for a part written into a statement
Stored(p) == IF p.quoted THEN p.name ELSE ToUpper(p.name)

\* Dialector.QuoteTo writes the returned name into DDL; the migrator looks
\* the same name up through dictCasePart
QuoteTo ==
    /\ pc = "named"
    /\ rendered.op # "normalizeQualifiedIdent"
    /\ LET raw == splitQualified(rendered.text)
       IN  ddl' = [text  |-> normalizeQualified(ns, rendered.text),
                   parts |-> cappedParts(ns, normalizeParts(ns, raw)),
                   dict  |-> [i \in 1..Len(raw) |-> dictCasePart(ns, raw[i])]]
    /\ pc' = "quoted"
    /\ UNCHANGED <<ns, ident, rendered, stmtVars, timeVars, migVars>>

NextNaming ==
    \/ NamingTableName
    \/ NamingJoinTableName
    \/ NamingColumnName
    \/ NamingGenToken
    \/ NamingNormalizeQualifiedIdent
    \/ QuoteTo

SpecNaming == InitNaming /\ [][NextNaming]_allvars

\* C13: every identifier the naming strategy renders, each dotted part of a
\* table, column or join-table name and every generated constraint or index
\* name, is at most the identifier cap long, as returned and as written into
\* DDL.
C13_RenderedWithinCap ==
    /\ ( /\ pc # "name"
         /\ rendered.op \in {"TableName", "JoinTableName", "ColumnName", "genToken"} )
       => \A i \in 1..Len(rendered.parts) :
              Len(rendered.parts[i].name) <= maxLengthOf(ns)
    /\ pc = "quoted"
       => \A i \in 1..Len(ddl.parts) : Len(ddl.parts[i].name) <= maxLengthOf(ns)

\* C14: for every identifier written into DDL, the dictionary-case form
\* computed for the same name equals the name Oracle stores for the written
\* text: the upper-cased text of an unquoted part, the exact text of a quoted
\* part, after case conversion and capping.
C14_DictionaryCaseFindsEmitted ==
    pc = "quoted"
    => /\ Len(ddl.dict) = Len(ddl.parts)
       /\ \A i \in 1..Len(ddl.parts) : ddl.dict[i] = Stored(ddl.parts[i])

\* every dotted part of a text is an unquoted identifier in upper snake case
UnquotedUpperSnake(text) ==
    \A i \in 1..Len(splitQualified(text)) :
        IsSafeOracleUnquoted(splitQualified(text)[i])

\* C15: with NamingCaseSensitive = false every identifier made from a name
\* without explicit quotes is emitted unquoted in UPPER_SNAKE form, and a
\* name that cannot be written unquoted is reported as an error instead of
\* being emitted.
C15_CaseInsensitiveUnquotedOrError ==
    ( /\ pc # "name"
      /\ ~ns.NamingCaseSensitive
      /\ ~IsExplicitQuoted(ident.name) )
    => /\ rendered.op # "ColumnName"
          => (rendered.err # "" \/ UnquotedUpperSnake(rendered.text))
       /\ pc = "quoted"
          => (rendered.err # "" \/ UnquotedUpperSnake(ddl.text))

(***************************************************************************)
(* SpecTime: time values on their way into a statement.  A time is a       *)
(* number of seconds and a number of nanoseconds; a literal is the text    *)
(* Time.Format produces, kept as the seconds and the fraction digits.      *)
(***************************************************************************)

MaxSec == 1
MaxPrec == 10

RECURSIVE Pow10(_)
Pow10(k) == IF k = 0 THEN 1 ELSE 10 * Pow10(k - 1)

\* time.Date(..., sec, nsec, loc): nanoseconds beyond a second are carried
Date(sec, nsec) ==
    [sec |-> sec + (nsec \div Pow10(9)), nanos |-> nsec % Pow10(9)]

trimFracToTruncates(t, p) ==
    IF p < 0 \/ p > 9 THEN t
    ELSE LET scale == Pow10(9 - p)
         IN  Date(t.sec, (t.nanos \div scale) * scale)

trimFracTo(t, p) ==
    IF p < 0 \/ p > 9 THEN t
    ELSE LET scale   == Pow10(9 - p)
             rounded == ((t.nanos + (scale \div 2)) \div scale) * scale
         IN  Date(t.sec, rounded)

\* the decimal digits of n, padded on the left to width w
RECURSIVE Digits(_, _)
Digits(n, w) ==
    IF w = 0 THEN <<>> ELSE Append(Digits(n \div 10, w - 1), hexdigits[(n % 10) + 1])

RECURSIVE TrimZeros(_)
TrimZeros(d) ==
    IF d # <<>> /\ d[Len(d)] = "0" THEN TrimZeros(SubSeq(d, 1, Len(d) - 1)) ELSE d

\* Time.Format with a fraction layout of w nines: the first w digits of the
\* nanoseconds, without trailing zeros
Format(t, w) ==
    [sec |-> t.sec, frac |-> TrimZeros(Digits(t.nanos \div Pow10(9 - w), w))]

TimeExpr(sqlType, lit) == [kind |-> "expr", sqlType |-> sqlType, lit |-> lit]

\* a value handed to the driver as it is
Raw(t) == [kind |-> "time", t |-> t]

Typed(typ, prec) == IF prec > 0 THEN <<typ, prec>> ELSE <<typ, 0>>

convertTimeNoTrim(t, typ, prec) ==
    IF typ = "DATE" THEN TimeExpr(<<"DATE", 0>>, Format(t, 0))
    ELSE IF typ \in {"TIMESTAMP", "TIMESTAMP WITH TIME ZONE",
                     "TIMESTAMP WITH LOCAL TIME ZONE"}
         THEN TimeExpr(Typed(typ, prec), Format(t, 6))
         ELSE Raw(t)

convertTime(t, typ, prec) ==
    IF typ = "DATE" THEN TimeExpr(<<"DATE", 0>>, Format(t, 0))
    ELSE IF typ \in {"TIMESTAMP", "TIMESTAMP WITH TIME ZONE",
                     "TIMESTAMP WITH LOCAL TIME ZONE"}
         THEN TimeExpr(Typed(typ, prec),
                       Format(IF prec > 0 THEN trimFracTo(t, prec) ELSE t, 6))
         ELSE Raw(t)

castTime(t, typ, prec) ==
    IF typ = "DATE" THEN TimeExpr(<<"DATE", 0>>, Format(t, 0))
    ELSE IF typ \in {"TIMESTAMP", "TIMESTAMP WITH TIME ZONE",
                     "TIMESTAMP WITH LOCAL TIME ZONE"}
         THEN TimeExpr(Typed(typ, prec),
                       Format(IF prec > 0 THEN trimFracTo(t, prec) ELSE t, 9))
         ELSE Raw(t)

\* the value of a fraction text in nanoseconds (TO_TIMESTAMP with FF)
RECURSIVE FracNanos(_, _)
FracNanos(d, k) ==
    IF k > Len(d) THEN 0
    ELSE (PosIn(d[k], hexdigits) - 1) * Pow10(9 - k) + FracNanos(d, k + 1)

InitTime ==
    LET Nanos == {0, 1, 499, 500, 123000000, 123456789, 500000000,
                  999999499, 999999500, 999999999}
        \* the data types a time field can have: the ones convertTime knows
        \* and the one DataTypeOf returns for a field that carries a precision
        TimeTypes == {"DATE", "TIMESTAMP", "TIMESTAMP WITH TIME ZONE",
                      "TIMESTAMP WITH LOCAL TIME ZONE",
                      "TIMESTAMP(p) WITH TIME ZONE"}
    IN
    /\ tm \in [t : [sec : 0..MaxSec, nanos : Nanos], typ : TimeTypes,
               prec : 0..MaxPrec]
    /\ bind = <<>>
    /\ stored = <<>>
    /\ pc = "time"
    /\ StmtIdle
    /\ NamingIdle
    /\ MigIdle

\* convertValue on the MERGE path
ConvertTime ==
    /\ pc = "time"
    /\ bind' = convertTime(tm.t, tm.typ, tm.prec) @@ [by |-> "convertTime"]
    /\ pc' = "bound"
    /\ UNCHANGED <<tm, stored, stmtVars, namingVars, migVars>>

\* castValue
CastTime ==
    /\ pc = "time"
    /\ bind' = castTime(tm.t, tm.typ, tm.prec) @@ [by |-> "castTime"]
    /\ pc' = "bound"
    /\ UNCHANGED <<tm, stored, stmtVars, namingVars, migVars>>

\* the server evaluates CAST(TO_TIMESTAMP(?, fmt) AS type) on a literal and
\* stores the result; a literal never has more digits than the type keeps
StoreTime ==
    /\ pc = "bound"
    /\ bind.kind = "expr"
    /\ stored' = [sec |-> bind.lit.sec, nanos |-> FracNanos(bind.lit.frac, 1)]
    /\ pc' = "stored"
    /\ UNCHANGED <<tm, bind, stmtVars, namingVars, migVars>>

NextTime ==
    \/ ConvertTime
    \/ CastTime
    \/ StoreTime

SpecTime == InitTime /\ [][NextTime]_allvars

\* C16: for a column of precision p in 1..9 the fractional-seconds text of
\* the bound literal has at most p digits.
C16_FractionHasAtMostPrecisionDigits ==
    ( /\ pc \in {"bound", "stored"}
      /\ bind.kind = "expr"
      /\ tm.prec \in 1..9 )
    => Len(bind.lit.frac) <= tm.prec

\* a literal of a time whose nanoseconds do not fit the precision was bound
C16_Witness ==
    /\ pc = "bound"
    /\ bind.kind = "expr"
    /\ tm.prec = 3
    /\ tm.t.nanos = 123456789
    /\ bind.lit.frac = <<"1", "2", "3">>

\* the signed distance from time a to time b in nanoseconds
NanosBetween(a, b) == (b.sec - a.sec) * Pow10(9) + (b.nanos - a.nanos)

\* C17 as stated: a time bound for a column of precision p (1..6, where the
\* literal can hold p digits) is stored with the nanoseconds of the time
\* truncated to p fractional digits.
C17_StoredIsTruncated ==
    ( /\ pc = "stored"
      /\ tm.typ # "DATE"
      /\ tm.prec \in 1..6 )
    => /\ stored.sec = tm.t.sec
       /\ stored.nanos = (tm.t.nanos \div Pow10(9 - tm.prec)) * Pow10(9 - tm.prec)

\* C17, amended: a time bound for a column of precision p in 1..6 is stored
\* rounded half-up to p fractional digits: the stored time is a multiple of
\* the unit of the last digit, at most half a unit after and less than half
\* a unit before the time.  Without a precision the literal of convertTime
\* is cut to six digits, so the time is stored truncated to microseconds.
C17_StoredIsRoundedHalfUp ==
    /\ ( /\ pc = "stored"
         /\ tm.typ # "DATE"
         /\ tm.prec \in 1..6 )
       => /\ stored.nanos % Pow10(9 - tm.prec) = 0
          /\ 2 * NanosBetween(tm.t, stored) <= Pow10(9 - tm.prec)
          /\ 2 * NanosBetween(stored, tm.t) < Pow10(9 - tm.prec)
    /\ ( /\ pc = "stored"
         /\ tm.typ # "DATE"
         /\ tm.prec = 0
         /\ bind.by = "convertTime" )
       => /\ stored.sec = tm.t.sec
          /\ stored.nanos = (tm.t.nanos \div 1000) * 1000

\* a time half a microsecond before the next second is stored as that second
C17_Witness ==
    /\ pc = "stored"
    /\ tm.typ = "TIMESTAMP WITH TIME ZONE"
    /\ tm.prec = 6
    /\ tm.t.nanos = 999999500
    /\ stored = [sec |-> tm.t.sec + 1, nanos |-> 0]

----------------------------------------------------------------------------
(* The migrator: CreateIndex and the Oracle domain-index options           *)

\* strings.TrimSpace
RECURSIVE TrimSpace(_)
TrimSpace(s) ==
    IF s = <<>> THEN s
    ELSE IF Head(s) = " " THEN TrimSpace(Tail(s))
    ELSE IF s[Len(s)] = " " THEN TrimSpace(SubSeq(s, 1, Len(s) - 1))
    ELSE s

isSingleQuoted(v) ==
    LET t == TrimSpace(v)
    IN  Len(t) >= 2 /\ t[1] = "'" /\ t[Len(t)] = "'"

\* fmt.Errorf("oracle: index %q ...", idx.Name): the message carries the name
IndexError(text, i) == <<[text |-> text, index |-> i.Name]>>

\* the first non-empty value is kept; a later value that differs is a conflict
mergeOracleDomainIndexConfig(c, indexType, parameters, i) ==
    LET it == TrimSpace(indexType)
        par == TrimSpace(parameters)
        c1 == IF it # <<>> /\ c.IndexType = <<>>
              THEN [c EXCEPT !.IndexType = it] ELSE c
    IN  IF it # <<>> /\ c.IndexType # <<>> /\ c.IndexType # it
        THEN [c EXCEPT !.err = IndexError("conflicting oracle_indextype values", i)]
        ELSE IF par # <<>> /\ c1.Parameters # <<>> /\ c1.Parameters # par
        THEN [c1 EXCEPT !.err = IndexError("conflicting oracle_parameters values", i)]
        ELSE IF par # <<>> /\ c1.Parameters = <<>>
        THEN [c1 EXCEPT !.Parameters = par]
        ELSE c1

\* The options of the index fields are merged in field order.  via tells
\* where a field declares its options:
\*   "TagSettings"  as tokens of their own in the gorm tag
\*   "named"        inside the declaration index:<name of this index>,...
\*   "unnamed"      inside the field's only, unnamed index declaration
\*   "unnamedMany"  inside an unnamed declaration, one of several of the field
\* The unnamed declarations of a field with several declarations are skipped.
RECURSIVE parseOracleDomainIndexConfig(_, _, _)
parseOracleDomainIndexConfig(i, k, c) ==
    IF k > Len(i.Fields) \/ c.err # <<>> THEN c
    ELSE parseOracleDomainIndexConfig(i, k + 1,
             IF i.Fields[k].via \in {"TagSettings", "named", "unnamed"}
             THEN mergeOracleDomainIndexConfig(c, i.Fields[k].indexType,
                                               i.Fields[k].parameters, i)
             ELSE c)

\* a slip that lets a UNIQUE domain index through
validateAllowsUnique(i, c) ==
    IF c.IndexType = <<>>
    THEN IF c.Parameters # <<>>
         THEN IndexError("has oracle_parameters but missing oracle_indextype", i)
         ELSE <<>>
    ELSE IF c.Parameters # <<>> /\ ~isSingleQuoted(c.Parameters)
    THEN IndexError("oracle_parameters must be single-quoted", i)
    ELSE IF TrimSpace(i.Type) # <<>>
    THEN IndexError("cannot use both type and oracle_indextype", i)
    ELSE <<>>

validateOracleDomainIndexConfig(i, c) ==
    IF c.IndexType = <<>>
    THEN IF c.Parameters # <<>>
         THEN IndexError("has oracle_parameters but missing oracle_indextype", i)
         ELSE <<>>
    ELSE IF c.Parameters # <<>> /\ ~isSingleQuoted(c.Parameters)
    THEN IndexError("oracle_parameters must be single-quoted", i)
    ELSE IF ToUpper(TrimSpace(i.Class)) = <<"U","N","I","Q","U","E">>
    THEN IndexError("cannot be UNIQUE when oracle_indextype is set", i)
    ELSE IF TrimSpace(i.Type) # <<>>
    THEN IndexError("cannot use both type and oracle_indextype", i)
    ELSE <<>>

\* CREATE [class] INDEX ? ON ? ? [INDEXTYPE IS .. [PARAMETERS (..)] | USING ..]
buildCreateIndexSQL(i, c) ==
    [stmt |-> "CREATE INDEX", class |-> i.Class,
     indexType |-> c.IndexType,
     parameters |-> IF c.IndexType # <<>> THEN c.Parameters ELSE <<>>,
     using |-> IF c.IndexType = <<>> THEN i.Type ELSE <<>>,
     where |-> <<>>]

\* AutoMigrate or a caller asks for the index mig.name of a schema whose
\* index is mig.idx: one or two columns, each with its options
InitIndex ==
    LET IndexFields ==
            [DBName : {<<"d","o","c">>},
             via : {"TagSettings", "named", "unnamed", "unnamedMany"},
             indexType : {<<>>, <<"C","T","X">>, <<" ","G","E","O">>},
             parameters : {<<>>, <<"'","s","'">>, <<"s">>}]
        IndexNames == { <<"i","d","x","_","a">>, <<"i","d","x","_","b">> }
    IN
    /\ mig \in [op : {"CreateIndex"}, name : IndexNames,
                idx : [Name : IndexNames,
                       Class : {<<>>, <<"U","N","I","Q","U","E">>,
                                <<"u","n","i","q","u","e">>},
                       Type : {<<>>, <<"b","t","r","e","e">>},
                       Where : {<<>>, <<"d","o","c",">","0">>},
                       Fields : {<<f>> : f \in IndexFields}
                                  \cup {<<f, g>> : f \in IndexFields,
                                                   g \in IndexFields}]]
    /\ ns = [IdentifierMaxLength |-> 0, capIdentifierMaxLength |-> DetectedCap,
             PreferredCase |-> ScreamingSnakeCase, NamingCaseSensitive |-> FALSE,
             SingularTable |-> FALSE, TablePrefix |-> <<>>]
    /\ dict = <<>>
    /\ migRet = <<>>
    /\ pc = "index"
    /\ ident = <<>>
    /\ rendered = <<>>
    /\ ddl = <<>>
    /\ StmtIdle
    /\ TimeIdle

\* Migrator.CreateIndex: nothing for a name the schema does not know; the
\* parse and validation errors before anything is executed; the plain
\* statement for an index without WHERE; the refusal of WHERE with
\* oracle_indextype; else the CASE WHEN work-around
CreateIndex ==
    /\ pc = "index"
    /\ LET i == mig.idx
           c == parseOracleDomainIndexConfig(i, 1,
                    [IndexType |-> <<>>, Parameters |-> <<>>, err |-> <<>>])
           v == validateOracleDomainIndexConfig(i, c)
       IN  migRet' =
             IF mig.name # i.Name THEN [err |-> <<>>, execs |-> <<>>]
             ELSE IF c.err # <<>> THEN [err |-> c.err, execs |-> <<>>]
             ELSE IF v # <<>> THEN [err |-> v, execs |-> <<>>]
             ELSE IF Len(i.Where) = 0
             THEN [err |-> <<>>,
                   execs |-> <<buildCreateIndexSQL(i, c)
                                 @@ [name |-> dictCasePart(ns, i.Name),
                                     cols |-> [k \in 1..Len(i.Fields) |->
                                                 i.Fields[k].DBName]]>>]
             ELSE IF c.IndexType # <<>>
             THEN [err |-> IndexError("cannot combine WHERE with oracle_indextype", i),
                   execs |-> <<>>]
             ELSE [err |-> <<>>,
                   execs |-> <<[stmt |-> "CREATE INDEX", class |-> i.Class,
                                indexType |-> <<>>, parameters |-> <<>>,
                                using |-> i.Type, where |-> i.Where,
                                name |-> dictCasePart(ns, i.Name),
                                cols |-> [k \in 1..Len(i.Fields) |->
                                            ColumnName(ns, i.Fields[k].DBName)]]>>]
    /\ pc' = "indexed"
    /\ UNCHANGED <<mig, dict, namingVars, timeVars, stmtVars>>

SpecIndex == InitIndex /\ [][CreateIndex]_allvars

\* the option values the tags of the index fields declare for this index
DeclaredFor(i, key) ==
    {TrimSpace(i.Fields[k][key]) :
        k \in {j \in 1..Len(i.Fields) :
                 i.Fields[j].via \in {"TagSettings", "named", "unnamed"}}}
      \ {<<>>}

----------------------------------------------------------------------------
(* The migrator: DropConstraint and HasConstraint                          *)

\* How the server reads a name that is written into DDL as it is
\* (clause.Column{Raw: true}): a quoted name denotes itself, a regular
\* identifier denotes its upper-case form, anything else is a syntax error.
RawName(token) ==
    IF IsExplicitQuoted(token) THEN [ok |-> TRUE, name |-> Inner(token)]
    ELSE IF /\ token # <<>>
            /\ IsCap(token[1]) \/ IsLow(token[1])
            /\ \A k \in 1..Len(token) :
                 IsCap(token[k]) \/ IsLow(token[k]) \/ IsNum(token[k])
                   \/ token[k] \in {"_", "$", "#"}
         THEN [ok |-> TRUE, name |-> ToUpper(token)]
         ELSE [ok |-> FALSE, name |-> <<>>]

\* The constraints earlier DDL left on the table of the statement, by the
\* names the data dictionary stores.
InitConstraint ==
    /\ ns \in {n \in NamingStrategies :
                 n.IdentifierMaxLength = 0 /\ ~n.SingularTable /\ n.TablePrefix = <<>>}
    /\ mig \in [op : {"DropConstraint"}, table : {<<"t">>},
                name : { <<"a","B">>, <<"A","B">>, <<"a","b">>,
                         <<"\"","a","B","\"">>, <<"a"," ","b">> }]
    /\ dict \in SUBSET { <<"a","B">>, <<"A","B">>, <<"a","b">>, <<"A","_","B">> }
    /\ migRet = <<>>
    /\ pc = "constraint"
    /\ ident = <<>>
    /\ rendered = <<>>
    /\ ddl = <<>>
    /\ StmtIdle
    /\ TimeIdle

\* ALTER TABLE <table> DROP CONSTRAINT <dictCasePart(name), written as it is>
DropConstraint ==
    /\ pc = "constraint"
    /\ LET dictName == dictCasePart(ns, mig.name)
           target   == RawName(dictName)
       IN  IF target.ok /\ target.name \in dict
           THEN /\ dict' = dict \ {target.name}
                /\ migRet' = [err |-> <<>>, execs |-> <<dictName>>, exists |-> 0]
           ELSE /\ dict' = dict
                /\ migRet' = [err |-> <<IF target.ok THEN "ORA-02443" ELSE "ORA-00904">>,
                              execs |-> <<dictName>>, exists |-> 0]
    /\ pc' = "dropped"
    /\ UNCHANGED <<mig, namingVars, timeVars, stmtVars>>

\* SELECT 1 FROM USER_CONSTRAINTS WHERE TABLE_NAME = :tab AND
\* CONSTRAINT_NAME = :c, with c = dictCasePart(name)
HasConstraint ==
    /\ pc = "dropped"
    /\ migRet' = [migRet EXCEPT
                    !.exists = IF dictCasePart(ns, mig.name) \in dict
                               THEN 1 ELSE 0]
    /\ pc' = "looked"
    /\ UNCHANGED <<mig, dict, namingVars, timeVars, stmtVars>>

NextConstraint ==
    \/ DropConstraint
    \/ HasConstraint

SpecConstraint == InitConstraint /\ [][NextConstraint]_allvars

\* C19: when DropConstraint(t, c) has executed its ALTER TABLE t DROP
\* CONSTRAINT without error, the HasConstraint(t, c) that follows returns
\* false.
C19_DroppedConstraintIsGone ==
    (pc = "looked" /\ migRet.err = <<>>) => migRet.exists = 0

----------------------------------------------------------------------------
(* The migrator: AutoMigrate, CreateTable, AlterColumn                     *)
(*                                                                         *)
(* The model has a primary key ID and one more column DOC.  The data       *)
(* dictionary holds, for the table of the model, its columns with type,    *)
(* nullability, default and identity, its CHECK constraints and its        *)
(* indexes.  Column comments are left out.                                 *)

\* CREATE TABLE with one "<column> <FullDataTypeOf>" per field, the named
\* primary key and the CHECK constraints of the schema, then CreateIndex for
\* every index of the schema.
CreateTable(fields) ==
    [exists  |-> TRUE,
     cols    |-> {[name |-> f.DBName, type |-> f.type,
                   nullable |-> ~f.NotNull /\ ~f.PrimaryKey /\ ~f.AutoIncrement,
                   default |-> f.Default,
                   identity |-> f.AutoIncrement] :
                    f \in SeqToSet(fields)},
     pk      |-> {f.DBName : f \in {g \in SeqToSet(fields) : g.PrimaryKey}},
     checks  |-> {[name |-> f.Check, col |-> f.DBName] :
                    f \in {g \in SeqToSet(fields) : g.Check # ""}},
     indexes |-> {[name |-> f.Index, col |-> f.DBName] :
                    f \in {g \in SeqToSet(fields) : g.Index # ""}}]

\* ADD the temporary column, UPDATE it from the old one, DROP the old column
\* (its default, its CHECK constraints and its indexes go with it), RENAME the
\* temporary column, then MODIFY ... NOT NULL for a NOT NULL field.
rewriteColumnToLOB(d, f) ==
    [d EXCEPT
       !.cols    = {c \in d.cols : c.name # f.DBName}
                     \cup {[name |-> f.DBName, type |-> f.type,
                            nullable |-> ~f.NotNull, default |-> "",
                            identity |-> FALSE]},
       !.checks  = {c \in d.checks : c.col # f.DBName},
       !.indexes = {i \in d.indexes : i.col # f.DBName}]

\* AlterColumn: nothing for a column the table does not have; the rewrite for
\* a LOB / LONG target type; else ALTER TABLE ... MODIFY (<type> [DEFAULT ..]
\* [NULL | NOT NULL]) followed by the separate ADD / DROP of the identity.
\* MigrateColumn calls it for every column AutoMigrate finds in the table.
AlterColumn(d, f) ==
    LET cur == CHOOSE c \in d.cols : c.name = f.DBName
        na  == IF cur.identity THEN "NullNoop"
               ELSE IF f.NotNull /\ cur.nullable THEN "NullSetNotNull"
               ELSE IF ~f.NotNull /\ ~cur.nullable THEN "NullSetNull"
               ELSE "NullNoop"
        dropDef == f.Default = "" /\ ~cur.identity
        new == [name |-> f.DBName, type |-> f.type,
                nullable |-> CASE na = "NullSetNotNull" -> FALSE
                               [] na = "NullSetNull" -> TRUE
                               [] OTHER -> cur.nullable,
                default |-> IF f.Default # "" THEN f.Default
                            ELSE IF dropDef /\ cur.default # "" THEN "NULL"
                            ELSE cur.default,
                identity |-> f.AutoIncrement]
    IN  IF ~\E c \in d.cols : c.name = f.DBName THEN d
        ELSE IF f.type \in {"CLOB", "NCLOB", "BLOB", "LONG"}
        THEN rewriteColumnToLOB(d, f)
        ELSE [d EXCEPT !.cols = (d.cols \ {cur}) \cup {new}]

\* The models AutoMigrate is called with: the primary key is declared not
\* null, as in the test models, with or without autoIncrement; DOC is a
\* VARCHAR2 or a CLOB, with or without not null, default, check and index.
InitMigrate ==
    /\ mig \in [op : {"AutoMigrate"}, runs : {0},
                fields : {<<id, doc>> :
                    id \in [DBName : {"ID"}, type : {"NUMBER"}, PrimaryKey : {TRUE},
                            AutoIncrement : BOOLEAN, NotNull : {TRUE},
                            Default : {""}, Check : {""}, Index : {""}],
                    doc \in [DBName : {"DOC"}, type : {"VARCHAR2", "CLOB"},
                             PrimaryKey : {FALSE}, AutoIncrement : {FALSE},
                             NotNull : BOOLEAN, Default : {"", "'{}'"},
                             Check : {"", "CHK_DOC"}, Index : {"", "IDX_DOC"}]}]
    /\ dict = [exists |-> FALSE, cols |-> {}, pk |-> {}, checks |-> {},
               indexes |-> {}]
    /\ migRet = [err |-> <<>>, first |-> <<>>]
    /\ pc = "migrate"
    /\ NamingIdle
    /\ StmtIdle
    /\ TimeIdle

\* gorm's AutoMigrate with this migrator: CreateTable for a table that does
\* not exist; else MigrateColumn for every column of the schema found in the
\* table (all of them: the model does not change between the runs), CreateConstraint for every CHECK constraint HasConstraint does not
\* find (which creates nothing: it only knows the relations of the schema),
\* and CreateIndex for every index HasIndex does not find.
AutoMigrate ==
    /\ pc = "migrate"
    /\ mig.runs < 2
    /\ LET fs == mig.fields
           RECURSIVE migrateColumns(_, _)
           migrateColumns(d, k) ==
               IF k > Len(fs) THEN d ELSE migrateColumns(AlterColumn(d, fs[k]), k + 1)
           altered == migrateColumns(dict, 1)
           indexed == [altered EXCEPT
                         !.indexes = @ \cup CreateTable(fs).indexes]
           after == IF dict.exists THEN indexed ELSE CreateTable(fs)
       IN  /\ dict' = after
           /\ migRet' = IF mig.runs = 0 THEN [migRet EXCEPT !.first = after]
                        ELSE migRet
    /\ mig' = [mig EXCEPT !.runs = @ + 1]
    /\ pc' = "migrate"
    /\ UNCHANGED <<namingVars, timeVars, stmtVars>>

SpecMigrate == InitMigrate /\ [][AutoMigrate]_allvars

\* C18: after AutoMigrate has run twice for the same model the table still
\* exists once, and its columns, constraints and indexes are the ones the
\* first run left.
C18_SecondRunChangesNothing ==
    mig.runs = 2 => dict = migRet.first

----------------------------------------------------------------------------
(* The LIMIT clause builders and the rows a query selects *)

MaxLimit == 2
MaxOffset == 2

\* a piece of statement text; a bind variable :n; a number written as digits
Kw(s) == [t |-> s, n |-> 0]
BindVar(n) == [t |-> ":", n |-> n]
Num(n) == [t |-> "#", n |-> n]

\* the rows of the queried table; no two rows agree on a column
QueryRows ==
    {[ID |-> 1, NAME |-> 3], [ID |-> 2, NAME |-> 1], [ID |-> 3, NAME |-> 2]}

\* Dialector.getLimitRows
getLimitRows(limit) ==
    IF limit.Limit # <<>>
    THEN [limitRows |-> limit.Limit[1], hasLimit |-> limit.Limit[1] > 0]
    ELSE [limitRows |-> 0, hasLimit |-> FALSE]

\* the text of the clauses the host builds before LIMIT: SELECT and FROM,
\* WHERE, ORDER BY, each only when the statement has the clause
BuildQuerySQL(c, cl) ==
    <<Kw(IF c.count THEN "SELECT count(*) FROM t" ELSE "SELECT * FROM t")>>
    \o (IF "WHERE" \in cl THEN <<Kw("WHERE"), Kw("ID >= 2")>> ELSE <<>>)
    \o (IF "ORDER BY" \in cl
        THEN <<Kw("ORDER BY"), Kw(c.orderBy[1].Name)>>
             \o (IF c.orderBy[1].Desc THEN <<Kw("DESC")>> ELSE <<>>)
        ELSE <<>>)

\* a builder that injects the ORDER BY whenever the clause is missing
RewriteLimitAlwaysOrders(c, cl, s, vs) ==
    LET l       == getLimitRows(c.limit)
        ordered == IF "ORDER BY" \notin cl
                   THEN s \o <<Kw("ORDER BY"),
                               IF c.pk # "" THEN Kw(c.pk)
                               ELSE Kw("(SELECT NULL FROM DUAL)")>>
                   ELSE s
        vs1     == IF c.limit.Offset > 0 THEN Append(vs, c.limit.Offset) ELSE vs
        offs    == IF c.limit.Offset > 0
                   THEN ordered \o <<Kw("OFFSET"), BindVar(Len(vs1)), Kw("ROWS")>>
                   ELSE ordered
        vs2     == IF l.hasLimit THEN Append(vs1, l.limitRows) ELSE vs1
    IN  [sql  |-> IF l.hasLimit
                  THEN offs \o <<Kw("FETCH NEXT"), BindVar(Len(vs2)), Kw("ROWS ONLY")>>
                  ELSE offs,
         vars |-> vs2]

\* Dialector.RewriteLimit
RewriteLimit(c, cl, s, vs) ==
    LET l       == getLimitRows(c.limit)
        ordered == IF "ORDER BY" \notin cl /\ l.hasLimit
                   THEN s \o <<Kw("ORDER BY"),
                               IF c.pk # "" THEN Kw(c.pk)
                               ELSE Kw("(SELECT NULL FROM DUAL)")>>
                   ELSE s
        vs1     == IF c.limit.Offset > 0 THEN Append(vs, c.limit.Offset) ELSE vs
        offs    == IF c.limit.Offset > 0
                   THEN ordered \o <<Kw("OFFSET"), BindVar(Len(vs1)), Kw("ROWS")>>
                   ELSE ordered
        vs2     == IF l.hasLimit THEN Append(vs1, l.limitRows) ELSE vs1
    IN  [sql  |-> IF l.hasLimit
                  THEN offs \o <<Kw("FETCH NEXT"), BindVar(Len(vs2)), Kw("ROWS ONLY")>>
                  ELSE offs,
         vars |-> vs2]

\* Dialector.getOrderByColumns
getOrderByColumns(c, cl) ==
    IF "ORDER BY" \in cl /\ c.orderBy # <<>>
    THEN <<Kw(c.orderBy[1].Name)>>
         \o (IF c.orderBy[1].Desc THEN <<Kw("DESC")>> ELSE <<>>)
    ELSE <<Kw("NULL")>>

\* the position of the first token t in s, 0 when there is none
TokenAt(s, t) ==
    IF \E i \in 1..Len(s) : s[i].t = t
    THEN CHOOSE i \in 1..Len(s) : s[i].t = t /\ \A j \in 1..(i - 1) : s[j].t # t
    ELSE 0

\* Dialector.rewriteRownumStmt
rewriteRownumStmt(cl, s, operator, rows) ==
    LET limitSql   == <<Kw(IF "WHERE" \notin cl THEN "WHERE" ELSE "AND"),
                        Kw("ROWNUM"), Kw(operator), Num(rows)>>
        orderIndex == TokenAt(s, "ORDER BY")
    IN  IF "ORDER BY" \notin cl THEN s \o limitSql
        ELSE SubSeq(s, 1, orderIndex - 1) \o limitSql
             \o SubSeq(s, orderIndex, Len(s))

\* Dialector.RewriteLimit11
RewriteLimit11(c, cl, s, vs) ==
    LET l         == getLimitRows(c.limit)
        hasOffset == c.limit.Offset > 0
    IN  [sql |->
           IF ~hasOffset /\ ~l.hasLimit THEN s
           ELSE IF l.hasLimit /\ hasOffset
           THEN <<Kw("SELECT * FROM (SELECT T.*, ROW_NUMBER() OVER (ORDER BY")>>
                \o getOrderByColumns(c, cl)
                \o <<Kw(") AS ROW_NUM FROM (")>> \o s
                \o <<Kw(") T) WHERE ROW_NUM BETWEEN"), Num(c.limit.Offset + 1),
                     Kw("AND"), Num(c.limit.Offset + l.limitRows)>>
           ELSE IF l.hasLimit THEN rewriteRownumStmt(cl, s, "<=", l.limitRows)
           ELSE rewriteRownumStmt(cl, s, ">", c.limit.Offset),
         vars |-> vs]

\* the elements lo..hi of s that exist
Slice(s, lo, hi) ==
    SubSeq(s, IF lo < 1 THEN 1 ELSE lo, IF hi > Len(s) THEN Len(s) ELSE hi)

\* ORDER BY on the server: rows sorted on the column named by the first
\* token, descending when DESC follows; an expression that names no column
\* leaves the rows as they come
OrderBy(toks, rows) ==
    LET col  == toks[1].t
        desc == Len(toks) > 1 /\ toks[2].t = "DESC"
        n    == Len(rows)
        p    == CHOOSE q \in [1..n -> 1..n] :
                    /\ \A i, j \in 1..n : i # j => q[i] # q[j]
                    /\ \A i, j \in 1..n : i < j =>
                          IF desc THEN rows[q[i]][col] > rows[q[j]][col]
                          ELSE rows[q[i]][col] < rows[q[j]][col]
    IN  IF col \in {"ID", "NAME"} THEN [i \in 1..n |-> rows[p[i]]] ELSE rows

\* a query block on the server: the rows are read in the order scan, WHERE
\* filters them and hands out ROWNUM 1, 2, .. to the rows it lets through,
\* ORDER BY sorts what is left, OFFSET and FETCH NEXT cut the sorted rows
SelectBlock(s, vs, scan) ==
    LET r        == TokenAt(s, "ROWNUM")
        o        == TokenAt(s, "ORDER BY")
        off      == TokenAt(s, "OFFSET")
        f        == TokenAt(s, "FETCH NEXT")
        filtered == IF TokenAt(s, "ID >= 2") > 0
                    THEN SelectSeq(scan, LAMBDA t : t.ID >= 2) ELSE scan
        \* a row gets the next ROWNUM only when it passes the predicate: no
        \* row ever passes ROWNUM > n for n >= 1
        counted  == IF r = 0 THEN filtered
                    ELSE IF s[r + 1].t = "<=" THEN Slice(filtered, 1, s[r + 2].n)
                    ELSE IF s[r + 2].n < 1 THEN filtered ELSE <<>>
        sorted   == IF o = 0 THEN counted
                    ELSE OrderBy(SubSeq(s, o + 1, Len(s)), counted)
        skipped  == IF off = 0 THEN sorted
                    ELSE Slice(sorted, vs[s[off + 1].n] + 1, Len(sorted))
    IN  IF f = 0 THEN skipped ELSE Slice(skipped, 1, vs[s[f + 1].n])

\* the rows the server returns for the statement
ExecQuery(s, vs, scan) ==
    LET a == TokenAt(s, ") AS ROW_NUM FROM (")
        b == TokenAt(s, ") T) WHERE ROW_NUM BETWEEN")
    IN  IF a = 0 THEN SelectBlock(s, vs, scan)
        ELSE Slice(OrderBy(SubSeq(s, 2, a - 1),
                           SelectBlock(SubSeq(s, a + 1, b - 1), vs, scan)),
                   s[b + 1].n, s[b + 3].n)

\* the orders in which the server may read the rows of the table
Scans(tbl) ==
    {q \in [1..Cardinality(tbl) -> tbl] :
        \A i, j \in 1..Cardinality(tbl) : i # j => q[i] # q[j]}

\* The statement as the query callback receives it; a count query has lost
\* its ORDER BY clause before the clauses are built.
InitLimit ==
    /\ cfg \in [ver : {11, 12}, pk : {"", "ID"}, count : BOOLEAN,
                dryRun : BOOLEAN,
                orderBy : {<<>>} \cup {<<[Name |-> "NAME", Desc |-> d]>> : d \in BOOLEAN},
                limit : [Limit : {<<>>} \cup {<<n>> : n \in -1..MaxLimit},
                         Offset : -1..MaxOffset]]
    /\ cfg.count => cfg.dryRun
    /\ clauses \in SUBSET {"WHERE", "ORDER BY"}
    /\ "ORDER BY" \in clauses <=> (cfg.orderBy # <<>> /\ ~cfg.count)
    /\ table = QueryRows
    /\ dest = <<>>
    /\ sql = <<>>
    /\ vars = <<>>
    /\ createValues = [Columns |-> <<>>, Values |-> <<>>]
    /\ path = ""
    /\ dbError = <<>>
    /\ rowsAffected = 0
    /\ pc = "query"
    /\ idx = 0
    /\ execLog = <<>>
    /\ conds = <<>>
    /\ where = <<>>
    /\ whereSQL = <<>>
    /\ ExtIdle

\* the clauses are built on a server newer than 11g
QueryBuild ==
    /\ pc = "query"
    /\ cfg.ver > 11
    /\ LET b == RewriteLimit(cfg, clauses, BuildQuerySQL(cfg, clauses), <<>>)
       IN  sql' = b.sql /\ vars' = b.vars
    /\ pc' = "built"
    /\ UNCHANGED <<extVars, cfg, dest, table, createValues, path, dbError,
                   rowsAffected, idx, execLog, whereVars>>

\* the clauses are built on 11g or older
QueryBuild11 ==
    /\ pc = "query"
    /\ cfg.ver <= 11
    /\ LET b == RewriteLimit11(cfg, clauses, BuildQuerySQL(cfg, clauses), <<>>)
       IN  sql' = b.sql /\ vars' = b.vars
    /\ pc' = "built"
    /\ UNCHANGED <<extVars, cfg, dest, table, createValues, path, dbError,
                   rowsAffected, idx, execLog, whereVars>>

\* the server runs the statement and the rows are scanned into the
\* destination
QueryExec ==
    /\ pc = "built"
    /\ ~cfg.dryRun
    /\ \E scan \in Scans(table) :
          /\ dest' = ExecQuery(sql, vars, scan)
          /\ execLog' = <<sql>>
    /\ rowsAffected' = Len(dest')
    /\ pc' = "done"
    /\ UNCHANGED <<extVars, cfg, table, createValues, path, sql, vars, dbError,
                   idx, whereVars>>

\* a dry run stops after the statement is built
QueryDryRun ==
    /\ pc = "built"
    /\ cfg.dryRun
    /\ pc' = "done"
    /\ UNCHANGED <<extVars, cfg, dest, table, createValues, path, sql, vars,
                   dbError, rowsAffected, idx, execLog, whereVars>>

NextLimit ==
    \/ QueryBuild
    \/ QueryBuild11
    \/ QueryExec
    \/ QueryDryRun

SpecLimit == InitLimit /\ [][NextLimit]_allvars

\* C21: on a server newer than 11g the built statement has an injected
\* ORDER BY (the primary key, or (SELECT NULL FROM DUAL) without one) exactly
\* when the statement has no ORDER BY clause and limit > 0; it has OFFSET :n
\* ROWS exactly when offset > 0 and FETCH NEXT :n ROWS ONLY exactly when
\* limit > 0, bound to the offset and the limit, in that order; a count query
\* with Limit(-1) has no ORDER BY.
C21_LimitInjectsOrderOffsetFetch ==
    (pc \in {"built", "done"} /\ cfg.ver > 11) =>
        LET o        == TokenAt(sql, "ORDER BY")
            off      == TokenAt(sql, "OFFSET")
            f        == TokenAt(sql, "FETCH NEXT")
            limitPos == cfg.limit.Limit # <<>> /\ cfg.limit.Limit[1] > 0
        IN  /\ (o > 0 /\ "ORDER BY" \notin clauses)
                  <=> ("ORDER BY" \notin clauses /\ limitPos)
            /\ (o > 0 /\ "ORDER BY" \notin clauses) =>
                  sql[o + 1] = IF cfg.pk # "" THEN Kw(cfg.pk)
                               ELSE Kw("(SELECT NULL FROM DUAL)")
            /\ off > 0 <=> cfg.limit.Offset > 0
            /\ off > 0 => /\ sql[off + 1].t = ":"
                          /\ vars[sql[off + 1].n] = cfg.limit.Offset
                          /\ sql[off + 2] = Kw("ROWS")
                          /\ o < off
            /\ f > 0 <=> limitPos
            /\ f > 0 => /\ sql[f + 1].t = ":"
                        /\ vars[sql[f + 1].n] = cfg.limit.Limit[1]
                        /\ sql[f + 2] = Kw("ROWS ONLY")
                        /\ f = Len(sql) - 2
                        /\ o < f /\ off < f
            /\ (cfg.count /\ cfg.limit.Limit = <<-1>>) => o = 0

\* a statement without an ORDER BY clause, with a limit and an offset, built
\* for a server newer than 11g
C21_Witness ==
    /\ pc = "built"
    /\ cfg.ver > 11
    /\ "ORDER BY" \notin clauses
    /\ cfg.limit.Limit = <<MaxLimit>>
    /\ cfg.limit.Offset = 1
    /\ TokenAt(sql, "ORDER BY") > 0
    /\ TokenAt(sql, "FETCH NEXT") > TokenAt(sql, "OFFSET")

\* C30: on 11g or older, a query with an ORDER BY clause selects the rows
\* the 12c form selects for the same ordering, offset and limit: rows
\* offset+1 .. offset+limit of the ordered result, the first limit rows of
\* it, or every row after the first offset rows.
C30_Limit11SelectsSameRows ==
    (pc = "done" /\ cfg.ver <= 11 /\ ~cfg.dryRun
       /\ "ORDER BY" \in clauses) =>
        LET b == RewriteLimit(cfg, clauses, BuildQuerySQL(cfg, clauses), <<>>)
        IN  SeqToSet(dest) = SeqToSet(ExecQuery(b.sql, b.vars,
                                        CHOOSE q \in Scans(table) : TRUE))

----------------------------------------------------------------------------
(* Statements that run at the same time on one model *)

NumStmts == 2

\* IsQuoted
IsQuoted(s) == Len(s) >= 2 /\ s[1] = "\"" /\ s[Len(s)] = "\""

\* strings.Trim(s, `"`)
TrimQuotes(s) ==
    LET keep == {i \in 1..Len(s) : s[i] # "\""}
    IN  IF keep = {} THEN <<>>
        ELSE SubSeq(s, CHOOSE i \in keep : \A j \in keep : i <= j,
                       CHOOSE i \in keep : \A j \in keep : i >= j)

\* everything but the shared schema and the positions of the statements
aloneVars == <<cfg, dest, table, createValues, path, sql, vars, dbError,
               rowsAffected, idx, execLog, whereVars, namingVars, timeVars,
               migVars>>

\* After database-open: the dialector configuration, the schema of the model
\* as the host parsed it (a column tag may carry its own double quotes), and
\* the statements the caller starts on it.
InitShared ==
    LET id     == <<"I", "D">>
        name   == <<"n", "a", "m", "e">>
        quoted(s) == <<"\"">> \o s \o <<"\"">>
        Parsed == {[k \in {id, name} |-> k],
                   [k \in {id, quoted(name)} |-> k],
                   [k \in {quoted(id), quoted(name)} |-> k]}
    IN
    /\ cfg = [NamingCaseSensitive |-> TRUE, DBVer |-> 12]
    /\ schema \in [FieldsByDBName : Parsed, writers : {{}}]
    /\ stmts \in [1..NumStmts ->
                    [op : {"query", "create", "delete"},
                     pc : {"start"}, first : {{}}, seen : {{}}, key : {<<>>}]]
    /\ pc = "run"
    /\ dest = <<>>
    /\ table = {}
    /\ createValues = [Columns |-> <<>>, Values |-> <<>>]
    /\ path = ""
    /\ sql = NoSQL
    /\ vars = <<>>
    /\ dbError = <<>>
    /\ rowsAffected = 0
    /\ idx = 0
    /\ execLog = <<>>
    /\ conds = <<>>
    /\ where = <<>>
    /\ whereSQL = <<>>
    /\ clauses = {}
    /\ NamingIdle
    /\ TimeIdle
    /\ MigIdle

\* Query, lines 64-68: the range statement hands out the next entry of the
\* map and the name without its quotes is looked up in the map.  An entry
\* added after the loop started is produced or skipped.
QueryRange(p) ==
    LET s     == stmts[p]
        first == IF s.pc = "start" THEN DOMAIN schema.FieldsByDBName ELSE s.first
    IN
    /\ pc = "run"
    /\ s.op = "query"
    /\ s.pc \in {"start", "range"}
    /\ \/ \E k \in DOMAIN schema.FieldsByDBName \ s.seen :
             LET dbName == IF IsQuoted(k) THEN TrimQuotes(k) ELSE k
             IN  stmts' = [stmts EXCEPT ![p] =
                    [s EXCEPT !.pc = IF dbName \in DOMAIN schema.FieldsByDBName
                                     THEN "range" ELSE "store",
                              !.first = first, !.key = k,
                              !.seen = s.seen \cup {k}]]
       \/ /\ first \subseteq s.seen
          /\ stmts' = [stmts EXCEPT ![p] = [s EXCEPT !.pc = "done", !.first = first]]
    /\ UNCHANGED <<aloneVars, schema, pc>>

\* Query, line 69: the assignment to the map starts.
QueryStore(p) ==
    /\ pc = "run"
    /\ stmts[p].pc = "store"
    /\ schema' = [schema EXCEPT !.writers = @ \cup {p}]
    /\ stmts' = [stmts EXCEPT ![p].pc = "storing"]
    /\ UNCHANGED <<aloneVars, pc>>

\* Query, line 69: the assignment to the map is done.
QueryStored(p) ==
    LET s      == stmts[p]
        dbName == TrimQuotes(s.key)
        m      == schema.FieldsByDBName
    IN
    /\ pc = "run"
    /\ s.pc = "storing"
    /\ schema' = [FieldsByDBName |->
                     [k \in DOMAIN m \cup {dbName} |->
                         IF k = dbName THEN m[s.key] ELSE m[k]],
                  writers |-> schema.writers \ {p}]
    /\ stmts' = [stmts EXCEPT ![p].pc = "range"]
    /\ UNCHANGED <<aloneVars, pc>>

\* Create and Delete, like Update, look fields up in the map of the schema.
LookUpField(p) ==
    /\ pc = "run"
    /\ stmts[p].op # "query"
    /\ stmts[p].pc = "start"
    /\ stmts' = [stmts EXCEPT ![p].pc = "done"]
    /\ UNCHANGED <<aloneVars, schema, pc>>

\* A statement reads, ranges over or assigns to the map while another
\* statement is assigning to it: the runtime may stop the program ("fatal
\* error: concurrent map read and map write", "concurrent map writes").
ConcurrentMapAccess(p) ==
    /\ pc = "run"
    /\ stmts[p].pc \in {"start", "range", "store"}
    /\ schema.writers \ {p} # {}
    /\ pc' = "fatal"
    /\ UNCHANGED <<aloneVars, schema, stmts>>

NextShared ==
    \E p \in 1..NumStmts :
        \/ QueryRange(p)
        \/ QueryStore(p)
        \/ QueryStored(p)
        \/ LookUpField(p)
        \/ ConcurrentMapAccess(p)

SpecShared == InitShared /\ [][NextShared]_allvars

\* C22: after database-open no step of a create, update, delete or query
\* statement writes to the state statements share, the dialector
\* configuration and the field maps of the parsed schema.
C22_StatementsOnlyReadSharedState ==
    [][cfg' = cfg /\ schema'.FieldsByDBName = schema.FieldsByDBName]_allvars

\* ---------------------------------------------------------------------
\* The migrator, statement by statement: AddColumn and AlterColumn against
\* a server that may reject any statement.  DDL is committed as it runs, so
\* what the statements before a failure did stays done.
\* ---------------------------------------------------------------------

\* strings.Contains over sequences of characters
Contains(s, sub) ==
    \E i \in 1..(Len(s) - Len(sub) + 1) : SubSeq(s, i, i + Len(sub) - 1) = sub

\* the data types the migrated field is declared with
TypeVARCHAR2 == <<"V", "A", "R", "C", "H", "A", "R", "2">>
TypeNUMBER == <<"N", "U", "M", "B", "E", "R">>
TypeCLOB == <<"C", "L", "O", "B">>
TypeNCLOB == <<"N", "C", "L", "O", "B">>
TypeBLOB == <<"B", "L", "O", "B">>
TypeLONG == <<"L", "O", "N", "G">>

\* the LOB types without LONG
isLOB(dt) ==
    LET u == ToUpper(dt)
    IN  Contains(u, TypeCLOB) \/ Contains(u, TypeBLOB) \/ Contains(u, TypeNCLOB)

isLOBOrLong(dt) ==
    LET u == ToUpper(dt)
    IN  Contains(u, TypeCLOB) \/ Contains(u, TypeBLOB) \/ Contains(u, TypeNCLOB)
        \/ Contains(u, TypeLONG)

\* the expression that copies the old column into the temporary one, or the
\* error for a target that is neither CLOB, NCLOB nor BLOB
lobCopyExpr(srcCol, targetDT) ==
    LET u == ToUpper(targetDT)
    IN  IF Contains(u, TypeCLOB) \/ Contains(u, TypeNCLOB)
        THEN [expr |-> "TO_CLOB", src |-> srcCol, err |-> ""]
        ELSE IF Contains(u, TypeBLOB)
        THEN [expr |-> "UTL_RAW.CAST_TO_RAW", src |-> srcCol, err |-> ""]
        ELSE [expr |-> "", src |-> srcCol, err |-> "unsupported LOB target"]

\* a statement of the migrator: the column it names, and what it says about
\* the column's type, default, nullability and identity
DDL(op, col) ==
    [op |-> op, col |-> col, type |-> <<>>, default |-> "", null |-> "NullNoop",
     identity |-> FALSE, to |-> <<>>, comment |-> ""]

\* <col> <datatype> [DEFAULT ...] [NULL|NOT NULL] [GENERATED BY DEFAULT AS
\* IDENTITY]; the caller puts it into ADD (...) or MODIFY (...)
buildColumnFragment(sf, dictDefault, opts) ==
    [DDL("MODIFY", sf.DBName) EXCEPT
        !.type = sf.type,
        !.default = IF sf.Default # "" THEN sf.Default
                    ELSE IF opts.forAlter /\ opts.dropDefault /\ dictDefault # ""
                    THEN "NULL" ELSE "",
        !.null = opts.nullability,
        !.identity = opts.includeIdentity /\ sf.AutoIncrement]

\* the server runs one statement of the migrator on the table; ok is FALSE
\* when the statement names a column that is not there, adds or renames to
\* one that is, or sets NOT NULL on a column holding NULLs
ServerDDL(d, s) ==
    LET names == {c.name : c \in d.cols}
        col == CHOOSE c \in d.cols : c.name = s.col
        others == {c \in d.cols : c.name # s.col}
        set(c) == [dict |-> [d EXCEPT !.cols = others \cup {c}], ok |-> TRUE]
        bad == [dict |-> d, ok |-> FALSE]
    IN  IF s.op = "ADD"
        THEN IF s.col \in names \/ (s.null = "NullSetNotNull" /\ d.rows > 0 /\ s.default = "")
             THEN bad
             ELSE [dict |-> [d EXCEPT !.cols = @ \cup
                      {[name |-> s.col, type |-> s.type, default |-> s.default,
                        notNull |-> s.null = "NullSetNotNull",
                        identity |-> s.identity,
                        data |-> IF d.rows = 0 THEN "none"
                                 ELSE IF s.default # "" \/ s.identity
                                 THEN "default" ELSE "NULL",
                        comment |-> ""]}],
                   ok |-> TRUE]
        ELSE IF s.col \notin names THEN bad
        ELSE IF s.op = "UPDATE"
        THEN IF s.to \notin names THEN bad
             ELSE set([col EXCEPT !.data = (CHOOSE c \in d.cols : c.name = s.to).data])
        ELSE IF s.op = "DROP"
        THEN [dict |-> [d EXCEPT !.cols = others], ok |-> TRUE]
        ELSE IF s.op = "RENAME"
        THEN IF s.to \in names THEN bad ELSE set([col EXCEPT !.name = s.to])
        ELSE IF s.op = "MODIFY"
        THEN IF s.null = "NullSetNotNull" /\ col.data = "NULL" THEN bad
             ELSE set([col EXCEPT
                      !.type = s.type,
                      !.default = IF s.default = "" THEN @
                                  ELSE IF s.default = "NULL" THEN "" ELSE s.default,
                      !.notNull = IF s.null = "NullNoop" THEN @
                                  ELSE s.null = "NullSetNotNull"])
        ELSE IF s.op = "ADD IDENTITY"
        THEN IF col.identity THEN bad ELSE set([col EXCEPT !.identity = TRUE])
        ELSE IF s.op = "DROP IDENTITY"
        THEN IF ~col.identity THEN bad ELSE set([col EXCEPT !.identity = FALSE])
        ELSE set([col EXCEPT !.comment = s.comment])

\* m.DB.Exec(stmt).Error inside a handler that returns at its first error:
\* nothing runs once an error was returned; the failAt-th statement is
\* rejected by the server whatever it says (a lock, a lost session)
Exec(st, s, failAt) ==
    IF st.err # "" THEN st
    ELSE LET r == ServerDDL(st.dict, s)
             ok == r.ok /\ Len(st.execs) + 1 # failAt
         IN  [dict |-> IF ok THEN r.dict ELSE st.dict,
              execs |-> Append(st.execs, [stmt |-> s, ok |-> ok]),
              err |-> IF ok THEN "" ELSE "ORA"]

setColumnComment(st, column, comment, failAt) ==
    IF comment = "" THEN st
    ELSE Exec(st, [DDL("COMMENT", column) EXCEPT !.comment = comment], failAt)

HasColumn(d, name) == \E c \in d.cols : c.name = name

NoStatement(d) == [dict |-> d, execs |-> <<>>, err |-> ""]

\* AddColumn with the nullability written into the ADD statement itself
AddColumnInOneStatement(d, sf, failAt) ==
    IF HasColumn(d, sf.DBName) THEN NoStatement(d)
    ELSE LET def == buildColumnFragment(sf, "",
                        [forAlter |-> FALSE,
                         nullability |-> IF sf.NotNull THEN "NullSetNotNull"
                                         ELSE "NullNoop",
                         includeIdentity |-> TRUE, dropDefault |-> FALSE])
             added == Exec(NoStatement(d), [def EXCEPT !.op = "ADD"], failAt)
         IN  setColumnComment(added, sf.DBName, sf.Comment, failAt)

\* Migrator.AddColumn: nothing for a column the table has; else ADD (def)
\* without nullability, then MODIFY (... NOT NULL) for a NOT NULL field, then
\* the comment; it returns at the first error
AddColumn(d, sf, failAt) ==
    IF HasColumn(d, sf.DBName) THEN NoStatement(d)
    ELSE LET def == buildColumnFragment(sf, "",
                        [forAlter |-> FALSE, nullability |-> "NullNoop",
                         includeIdentity |-> TRUE, dropDefault |-> FALSE])
             added == Exec(NoStatement(d), [def EXCEPT !.op = "ADD"], failAt)
             mod == buildColumnFragment(sf, "",
                        [forAlter |-> TRUE, nullability |-> "NullSetNotNull",
                         includeIdentity |-> FALSE, dropDefault |-> FALSE])
             modified == IF sf.NotNull THEN Exec(added, mod, failAt) ELSE added
         IN  setColumnComment(modified, sf.DBName, sf.Comment, failAt)

\* the temporary column of the rewrite: <COLUMN>_TMP_<fnv32(column + type)>
tmpColumn(sf, targetDT) ==
    ToDelimited(sf.DBName, TRUE) \o <<"_", "T", "M", "P", "_">>
        \o hexValue(fnv32a(sf.DBName \o targetDT))

\* Migrator.rewriteColumnToLOB, statement by statement: ADD the temporary
\* column, UPDATE it from the old one, DROP the old one, RENAME the
\* temporary one, MODIFY (... NOT NULL) and the comment; it returns at the
\* first error, the one of lobCopyExpr included
rewriteColumnToLOBSteps(d, sf, targetDT, failAt) ==
    LET tmp == tmpColumn(sf, targetDT)
        added == Exec(NoStatement(d),
                      [DDL("ADD", tmp) EXCEPT !.type = targetDT], failAt)
        copyExpr == lobCopyExpr(sf.DBName, targetDT)
        copy == IF added.err = "" /\ copyExpr.err # ""
                THEN [added EXCEPT !.err = copyExpr.err] ELSE added
        updated == Exec(copy, [DDL("UPDATE", tmp) EXCEPT !.to = copyExpr.src],
                        failAt)
        dropped == Exec(updated, DDL("DROP", sf.DBName), failAt)
        renamed == Exec(dropped, [DDL("RENAME", tmp) EXCEPT !.to = sf.DBName],
                        failAt)
        notNull == IF sf.NotNull
                   THEN Exec(renamed,
                             [DDL("MODIFY", sf.DBName) EXCEPT
                                 !.type = targetDT, !.null = "NullSetNotNull"],
                             failAt)
                   ELSE renamed
    IN  setColumnComment(notNull, sf.DBName, sf.Comment, failAt)

\* Migrator.AlterColumn, statement by statement: nothing for a column the
\* table lacks; the rewrite for a LOB or LONG target; else one MODIFY with
\* the type, the default and the nullability delta, the identity added or
\* dropped in a MODIFY of its own, and the comment
AlterColumnSteps(d, sf, failAt) ==
    IF ~HasColumn(d, sf.DBName) THEN NoStatement(d)
    ELSE LET cur == CHOOSE c \in d.cols : c.name = sf.DBName
             hasIdentity == cur.identity
             isCurNullable == ~cur.notNull
             na == IF hasIdentity THEN "NullNoop"
                   ELSE IF sf.NotNull /\ isCurNullable THEN "NullSetNotNull"
                   ELSE IF ~sf.NotNull /\ ~isCurNullable THEN "NullSetNull"
                   ELSE "NullNoop"
             dropDef == sf.Default = "" /\ ~hasIdentity
             targetDT == sf.type
             frag == buildColumnFragment(sf, cur.default,
                         [forAlter |-> TRUE, nullability |-> na,
                          includeIdentity |-> FALSE, dropDefault |-> dropDef])
             altered == Exec(NoStatement(d), frag, failAt)
             identity ==
                 IF sf.AutoIncrement /\ ~hasIdentity
                 THEN Exec(altered, DDL("ADD IDENTITY", sf.DBName), failAt)
                 ELSE IF ~sf.AutoIncrement /\ hasIdentity
                 THEN Exec(altered, DDL("DROP IDENTITY", sf.DBName), failAt)
                 ELSE altered
         IN  IF isLOBOrLong(targetDT)
             THEN rewriteColumnToLOBSteps(d, sf, targetDT, failAt)
             ELSE setColumnComment(identity, sf.DBName, sf.Comment, failAt)

\* the statements a migrator call may run before it returns
MaxDDL == 6

ColDOC == <<"D", "O", "C">>

\* a table with one row or none and a primary key, with or without the
\* column of the field; the migrator is about to add or to alter the column
InitAlter ==
    /\ mig \in [op : {"AddColumn", "AlterColumn"},
                field : [DBName : {ColDOC},
                         type : {TypeVARCHAR2, TypeNUMBER, TypeCLOB, TypeNCLOB,
                                 TypeBLOB, TypeLONG},
                         NotNull : BOOLEAN, AutoIncrement : BOOLEAN,
                         Default : {"", "'x'"}, Comment : {"", "doc"}]]
    /\ mig.field.AutoIncrement => mig.field.type = TypeNUMBER /\ mig.field.Default = ""
    /\ \E rows \in 0..1, has \in BOOLEAN, cur \in
            [name : {ColDOC}, type : {TypeVARCHAR2, TypeNUMBER},
             default : {"", "'x'"}, notNull : BOOLEAN, identity : BOOLEAN,
             data : {"rows"}, comment : {""}] :
          /\ cur.identity => cur.type = TypeNUMBER /\ cur.default = "" /\ cur.notNull
          /\ ~has => cur = [name |-> ColDOC, type |-> TypeVARCHAR2, default |-> "",
                            notNull |-> FALSE, identity |-> FALSE,
                            data |-> "rows", comment |-> ""]
          /\ dict = [rows |-> rows,
                     cols |-> {[name |-> <<"I", "D">>, type |-> TypeNUMBER,
                                default |-> "", notNull |-> TRUE,
                                identity |-> FALSE,
                                data |-> IF rows = 0 THEN "none" ELSE "rows",
                                comment |-> ""]}
                          \cup (IF has
                                THEN {[cur EXCEPT !.data = IF rows = 0 THEN "none"
                                                           ELSE "rows"]}
                                ELSE {})]
    /\ migRet = [err |-> "", execs |-> <<>>, before |-> dict]
    /\ pc = "alter"
    /\ NamingIdle
    /\ StmtIdle
    /\ TimeIdle

\* db.Migrator().AddColumn(&model, field)
MigratorAddColumn ==
    /\ pc = "alter"
    /\ mig.op = "AddColumn"
    /\ \E failAt \in 0..MaxDDL :
          LET r == AddColumn(dict, mig.field, failAt)
          IN  /\ dict' = r.dict
              /\ migRet' = [migRet EXCEPT !.err = r.err, !.execs = r.execs]
    /\ pc' = "done"
    /\ UNCHANGED <<mig, namingVars, timeVars, stmtVars>>

\* db.Migrator().AlterColumn(&model, field)
MigratorAlterColumn ==
    /\ pc = "alter"
    /\ mig.op = "AlterColumn"
    /\ \E failAt \in 0..MaxDDL :
          LET r == AlterColumnSteps(dict, mig.field, failAt)
          IN  /\ dict' = r.dict
              /\ migRet' = [migRet EXCEPT !.err = r.err, !.execs = r.execs]
    /\ pc' = "done"
    /\ UNCHANGED <<mig, namingVars, timeVars, stmtVars>>

NextAlter == MigratorAddColumn \/ MigratorAlterColumn

SpecAlter == InitAlter /\ [][NextAlter]_allvars

\* the statements of the migrator call that ran, in order
Ran == migRet.execs

\* the call is over and it altered an existing column to one of the types
\* CLOB, NCLOB, BLOB and LONG
Rewrote ==
    /\ pc = "done"
    /\ mig.op = "AlterColumn"
    /\ HasColumn(migRet.before, mig.field.DBName)
    /\ mig.field.type \in {TypeCLOB, TypeNCLOB, TypeBLOB, TypeLONG}

\* C23: when the target type of AlterColumn is a LOB or LONG, no MODIFY
\* changes the type of the column (the only MODIFY is the fifth statement,
\* for NOT NULL, on the column that already has the target type); the
\* statements that ran are, in this order, ADD of the temporary column,
\* UPDATE of it from the original, DROP of the original, RENAME of the
\* temporary column to the original name, MODIFY ... NOT NULL for a NOT NULL
\* field and the comment for a commented one; each ran only after the one
\* before it succeeded, and a call that returned no error ran them all.
C23_LOBRewriteStepsInOrder ==
    Rewrote =>
        LET sf == mig.field
            tmp == tmpColumn(sf, sf.type)
            steps == <<[op |-> "ADD", col |-> tmp, to |-> <<>>],
                       [op |-> "UPDATE", col |-> tmp, to |-> sf.DBName],
                       [op |-> "DROP", col |-> sf.DBName, to |-> <<>>],
                       [op |-> "RENAME", col |-> tmp, to |-> sf.DBName]>>
                     \o (IF sf.NotNull
                         THEN <<[op |-> "MODIFY", col |-> sf.DBName, to |-> <<>>]>>
                         ELSE <<>>)
                     \o (IF sf.Comment # ""
                         THEN <<[op |-> "COMMENT", col |-> sf.DBName, to |-> <<>>]>>
                         ELSE <<>>)
        IN  /\ Len(Ran) <= Len(steps)
            /\ \A i \in 1..Len(Ran) :
                  /\ [op |-> Ran[i].stmt.op, col |-> Ran[i].stmt.col,
                      to |-> Ran[i].stmt.to] = steps[i]
                  /\ i > 1 => Ran[i - 1].ok
                  /\ Ran[i].stmt.op = "MODIFY" =>
                        /\ i = 5
                        /\ Ran[i].stmt.type = sf.type
                        /\ Ran[i].stmt.null = "NullSetNotNull"
            /\ migRet.err = "" =>
                  Len(Ran) = Len(steps) /\ \A i \in 1..Len(Ran) : Ran[i].ok

\* a NOT NULL, commented column was rewritten to CLOB and all six statements
\* succeeded
C23_Witness ==
    /\ Rewrote
    /\ mig.field.type = TypeCLOB
    /\ mig.field.NotNull
    /\ Len(Ran) = 6
    /\ migRet.err = ""
    /\ \E c \in dict.cols :
          c.name = mig.field.DBName /\ c.type = TypeCLOB /\ c.notNull
          /\ c.data = "rows"

\* C24: AddColumn never writes NOT NULL into the ADD statement; for a NOT
\* NULL field the first statement is the ADD and the MODIFY ... NOT NULL
\* runs second, only after the ADD succeeded; after a failed ADD nothing
\* else runs.
C24_NotNullAfterAddSucceeded ==
    (pc = "done" /\ mig.op = "AddColumn") =>
        /\ \A i \in 1..Len(Ran) :
              /\ Ran[i].stmt.op = "ADD" => i = 1 /\ Ran[i].stmt.null = "NullNoop"
              /\ (Ran[i].stmt.op = "MODIFY"
                  /\ Ran[i].stmt.null = "NullSetNotNull") =>
                    i = 2 /\ Ran[1].stmt.op = "ADD" /\ Ran[1].ok
        /\ (mig.field.NotNull /\ ~HasColumn(migRet.before, mig.field.DBName)) =>
              /\ Len(Ran) >= 1
              /\ Ran[1].stmt.op = "ADD"
              /\ Ran[1].ok =>
                    /\ Len(Ran) >= 2
                    /\ Ran[2].stmt.op = "MODIFY"
                    /\ Ran[2].stmt.col = mig.field.DBName
                    /\ Ran[2].stmt.null = "NullSetNotNull"
        /\ (Len(Ran) >= 1 /\ ~Ran[1].ok) => Len(Ran) = 1

\* a NOT NULL column was added to a table that holds a row: the ADD
\* succeeded and the MODIFY ... NOT NULL after it was rejected
C24_Witness ==
    /\ pc = "done"
    /\ mig.op = "AddColumn"
    /\ mig.field.NotNull
    /\ migRet.before.rows = 1
    /\ Len(Ran) = 2
    /\ Ran[1].stmt.op = "ADD" /\ Ran[1].ok
    /\ Ran[2].stmt.op = "MODIFY" /\ ~Ran[2].ok
    /\ \E c \in dict.cols : c.name = mig.field.DBName /\ ~c.notNull

\* C29: when the rewrite returned an error, the table still has a column of
\* the original name holding the original data and no column it did not
\* have before.
C29_FailedRewriteLeavesTableIntact ==
    (Rewrote /\ migRet.err # "") =>
        /\ \E c \in dict.cols, o \in migRet.before.cols :
              /\ o.name = mig.field.DBName
              /\ c.name = o.name
              /\ c.data = o.data
        /\ {c.name : c \in dict.cols} \subseteq {o.name : o \in migRet.before.cols}

\* the dictionary-case anchor OWNER.OBJECT|COL of a generated name
anchorOf(n, tableOrObject, col) ==
    LET d == dictQualifiedParts(n, tableOrObject)
    IN  d.owner \o <<".">> \o d.object \o <<"|">> \o dictCasePart(n, col)

\* C25: every name genToken returns ends with "_" and the eight hexadecimal
\* digits of the FNV-1a hash of the dictionary-case anchor OWNER.OBJECT|COL,
\* and an object with another anchor whose hash differs gets another name
\* of the same kind.
C25_GenTokenEndsWithAnchorHash ==
    (pc = "named" /\ rendered.op = "genToken") =>
        LET text == rendered.text
            hash == hexValue(fnv32a(anchorOf(ns, ident.name, ident.column)))
        IN  /\ Len(text) >= Len(hash) + 1
            /\ SubSeq(text, Len(text) - Len(hash), Len(text)) = <<"_">> \o hash
            /\ \A kind \in { <<"C", "K">>, <<"I", "D", "X">>, <<"U", "K">> } :
                  text = genToken(ns, kind, ident.name, ident.column) =>
                      \A other \in Names :
                          hexValue(fnv32a(anchorOf(ns, other, ident.column))) # hash
                              => genToken(ns, kind, other, ident.column) # text

\* ---------------------------------------------------------------------
\* Returning.Build on the destinations reflection can hand it: a struct, a
\* slice or an array, reached through a pointer or passed by value, with
\* elements that are structs or pointers to structs.
\* ---------------------------------------------------------------------

\* rows of a destination and fields of the RETURNING clause
MaxRetRows == 2
MaxRetFields == 2

\* isReturnableField: a readable column of a scalar type (a pointer to one,
\* a byte slice), not an embedded struct
isReturnableField(f) == f.kind \in {"int", "ptr", "bytes"}

\* f.ReflectValueOf(ctx, elem): the field of one element; a field of an
\* addressable struct is addressable and can be set
ReflectValueOf(c, row, i) ==
    [kind |-> c.fields[i].kind, isNil |-> row.isNil[i],
     canAddr |-> c.addressable \/ c.elemPtr]

canUseReturningDest(v) ==
    IF v.kind = "ptr" THEN (IF v.isNil THEN v.canAddr ELSE TRUE)
    ELSE IF v.kind = "bytes" THEN (IF v.isNil THEN v.canAddr ELSE v.canAddr)
    ELSE v.canAddr

\* returningDest: ok tells whether a destination came back; a nil pointer or
\* nil slice that can be set is allocated first
returningDest(v) ==
    IF v.kind = "ptr"
    THEN IF v.isNil /\ ~v.canAddr THEN [ok |-> FALSE, isNil |-> v.isNil]
         ELSE [ok |-> TRUE, isNil |-> FALSE]
    ELSE IF v.kind = "bytes"
    THEN IF v.isNil /\ ~v.canAddr THEN [ok |-> FALSE, isNil |-> v.isNil]
         ELSE [ok |-> v.canAddr, isNil |-> FALSE]
    ELSE [ok |-> v.canAddr, isNil |-> v.isNil]

\* canBindReturningField looks at the struct, or at the first element of a
\* slice or array
canBindReturningField(c, rows, i) ==
    IF c.kind \in {"slice", "array"}
    THEN IF Len(rows) = 0 THEN FALSE
         ELSE IF c.elemPtr /\ rows[1].nilElem THEN FALSE
         ELSE canUseReturningDest(ReflectValueOf(c, rows[1], i))
    ELSE canUseReturningDest(ReflectValueOf(c, rows[1], i))

\* Returning.Build after the keyword was written: the fields are filtered,
\* their names written, then " INTO ", then field by field the Out bind of
\* every row (appended to the row's value list; the bind of the first row
\* is the placeholder of the statement).  It returns where returningDest
\* finds no destination; reflection panics on the field of a nil element.
ReturningBuild(c, rows, cv) ==
    LET all == 1..Len(c.fields)
        filtered == SelectSeq([i \in all |-> i], LAMBDA i :
                        isReturnableField(c.fields[i])
                        /\ canBindReturningField(c, rows, i))
        nf == Len(filtered)
        nr == Len(rows)
        \* the position of (field k, row j) in the order of the two loops
        at(k, j) == (k - 1) * nr + j
        val(k, j) == ReflectValueOf(c, rows[j], filtered[k])
        panics(k, j) == c.elemPtr /\ rows[j].nilElem
        stops(k, j) == panics(k, j) \/ ~returningDest(val(k, j)).ok
        stopAt == {at(k, j) : <<k, j>> \in
                      {p \in (1..nf) \X (1..nr) : stops(p[1], p[2])}}
        first == IF stopAt = {} THEN nf * nr + 1
                 ELSE CHOOSE m \in stopAt : \A x \in stopAt : m <= x
        done(k, j) == at(k, j) < first
        panicked == \E k \in 1..nf, j \in 1..nr :
                        at(k, j) = first /\ panics(k, j)
    IN  IF nf = 0
        THEN [names |-> <<>>, into |-> 0, vars |-> <<>>, cv |-> cv, rows |-> rows,
              panicked |-> FALSE]
        ELSE [names |-> [k \in 1..nf |-> c.fields[filtered[k]].DBName],
              into |-> Cardinality({k \in 1..nf : done(k, 1)}),
              vars |-> [k \in 1..Cardinality({k \in 1..nf : done(k, 1)}) |->
                           Out(1, c.fields[filtered[k]].DBName)],
              cv |-> [cv EXCEPT !.Values = [j \in 1..Len(cv.Values) |->
                        IF j > nr THEN cv.Values[j]
                        ELSE cv.Values[j] \o
                             [k \in 1..Cardinality({k \in 1..nf : done(k, j)}) |->
                                 Out(j, c.fields[filtered[k]].DBName)]]],
              rows |-> [j \in 1..nr |-> [rows[j] EXCEPT !.isNil =
                          [i \in all |->
                              IF \E k \in 1..nf : filtered[k] = i /\ done(k, j)
                              THEN returningDest(ReflectValueOf(c, rows[j], i)).isNil
                              ELSE rows[j].isNil[i]]]],
              panicked |-> panicked]

\* the statement has its keyword RETURNING and the clause is about to be
\* built for a destination
InitReturning ==
    /\ cfg \in [kind : {"struct", "slice", "array"}, addressable : BOOLEAN,
                elemPtr : BOOLEAN,
                fields : UNION {[1..n -> [DBName : {"ID", "CODE"},
                                          kind : {"int", "ptr", "bytes", "embedded"}]]
                                : n \in 1..MaxRetFields}]
    /\ \A i, k \in 1..Len(cfg.fields) :
          i # k => cfg.fields[i].DBName # cfg.fields[k].DBName
    /\ cfg.kind = "struct" => ~cfg.elemPtr
    /\ cfg.kind = "slice" => cfg.addressable
    /\ dest \in UNION {[1..n -> [nilElem : BOOLEAN,
                                 isNil : [1..Len(cfg.fields) -> BOOLEAN]]]
                       : n \in 1..MaxRetRows}
    /\ cfg.kind = "struct" => Len(dest) = 1
    /\ \A j \in 1..Len(dest) :
          /\ dest[j].nilElem => cfg.elemPtr /\ j > 1
          /\ \A i \in 1..Len(cfg.fields) :
                dest[j].isNil[i] => cfg.fields[i].kind \in {"ptr", "bytes"}
    /\ createValues = [Columns |-> <<>>, Values |-> [j \in 1..Len(dest) |-> <<>>]]
    /\ sql = [NoSQL EXCEPT !.verb = "INSERT", !.rows = 1, !.returningKw = TRUE]
    /\ vars = <<>>
    /\ pc = "returning"
    /\ table = {}
    /\ path = ""
    /\ dbError = <<>>
    /\ rowsAffected = 0
    /\ idx = 0
    /\ execLog = <<>>
    /\ conds = <<>>
    /\ where = <<>>
    /\ whereSQL = <<>>
    /\ clauses = {"INSERT", "VALUES", "RETURNING"}
    /\ ExtIdle

\* stmt.Build reaches the RETURNING clause
BuildReturning ==
    /\ pc = "returning"
    /\ LET r == ReturningBuild(cfg, dest, createValues)
       IN  /\ sql' = [sql EXCEPT !.retCols = r.names, !.into = r.into]
           /\ vars' = r.vars
           /\ createValues' = r.cv
           /\ dest' = r.rows
           /\ pc' = IF r.panicked THEN "panic" ELSE "built"
    /\ UNCHANGED <<cfg, table, path, dbError, rowsAffected, idx, execLog,
                   whereVars, extVars>>

SpecReturning == InitReturning /\ [][BuildReturning]_allvars

\* C26: when the builder of RETURNING wrote anything, it wrote as many INTO
\* placeholders as column names and appended as many Out binds to the
\* variables of the statement, and the value list of every row of the
\* destination received that many Out binds.
C26_ColumnsPlaceholdersAndBindsAgree ==
    (pc = "built" /\ (sql.retCols # <<>> \/ sql.into > 0 \/ vars # <<>>)) =>
        /\ sql.into = Len(sql.retCols)
        /\ Len(vars) = Len(sql.retCols)
        /\ \A j \in 1..Len(dest) :
              Len(createValues.Values[j]) = Len(sql.retCols)

\* C27: when a row was inserted with a RETURNING clause, every returned
\* column's field of the entity holds the value the server returned for that
\* column, and every other field, the primary key included, is as the caller
\* passed it: the primary key is assigned from the output of its own column
\* only.
C27_FieldsHoldTheirOwnOutputs ==
    [][ ( /\ path = "INSERT"
          /\ Len(execLog') = Len(execLog) + 1
          /\ table' # table
          /\ pc' # "panic"
          /\ sql.retCols # <<>> ) =>
          LET i == execLog'[Len(execLog')].row
              new == CHOOSE t \in table' \ table : TRUE
          IN  \A f \in Fields :
                 dest'[i][f] = IF f \in SeqToSet(sql.retCols) THEN new[f]
                               ELSE dest[i][f]
      ]_allvars

\* ---------------------------------------------------------------------
\* The execution step of Update with every error the driver can return: a
\* bind the driver refuses, a failure of the server, and the error of an
\* UPDATE ... RETURNING that matched no row.
\* ---------------------------------------------------------------------

\* go_ora.Out{} as a caller passes it by mistake: no destination
OutNoDest == Out(0, "")

\* ORA-03113, the session was lost: no statement is safe from it
ServerFailure == "ORA-03113: end-of-file on communication channel"

\* ConnPool.ExecContext: go-ora encodes the binds first and refuses an Out
\* bind whose destination is no pointer; then the server runs the statement
\* or fails
DriverResults(tbl, s, w, vs) ==
    IF \E i \in 1..Len(vs) : vs[i] = OutNoDest
    THEN {[err |-> PointerTypeError, table |-> tbl, n |-> 0, rows |-> {}]}
    ELSE {ExecUpdate(tbl, s, w, vs),
          [err |-> ServerFailure, table |-> tbl, n |-> 0, rows |-> {}]}

\* db.Model(&m).Where(...).Updates(map) has built UPDATE t SET "NAME" = :1
\* [WHERE ...] [RETURNING ... INTO ...]; outArg tells that the caller passed
\* a go_ora.Out{} among the arguments of a condition
InitUpdateExec ==
    LET UserDDL ==
            [pk |-> <<"ID">>, autoInc |-> TRUE, seqDefault |-> FALSE,
             uidUnique |-> FALSE]
        Models ==
            {[f \in Fields |-> CASE f = "ID" -> i [] f = "NAME" -> nm
                                 [] OTHER -> 0] :
                i \in 0..MaxId, nm \in {0, BaseRow["NAME"]}}
    IN
    /\ cfg \in [op : {"update"}, ddl : {UserDDL}, hasSchema : {TRUE},
                allowGlobalUpdate : {TRUE}, softDelete : {FALSE},
                destKind : {"map"}, set : {1, BaseRow["NAME"]},
                dryRun : {FALSE}, translateError : {FALSE}, model : Models,
                outArg : BOOLEAN]
    /\ dest = <<cfg.model>>
    /\ table = {BaseRow}
    /\ \E returning \in BOOLEAN, v \in {0, 1, BaseRow["NAME"]} :
          LET ret == IF returning THEN DBNames ELSE <<>>
          IN  /\ where = (IF v = 0 THEN <<>>
                          ELSE <<Cond("ExprEq", "NAME", <<v>>, FALSE)>>)
              /\ clauses = {"UPDATE", "SET"}
                             \cup (IF returning THEN {"RETURNING"} ELSE {})
                             \cup (IF v # 0 \/ cfg.outArg THEN {"WHERE"} ELSE {})
              /\ sql = [NoSQL EXCEPT !.verb = "UPDATE", !.cols = <<"NAME">>,
                           !.returningKw = returning, !.retCols = ret,
                           !.into = Len(ret)]
              /\ vars = <<Val(cfg.set)>> \o WhereVars(where)
                          \o (IF cfg.outArg THEN <<OutNoDest>> ELSE <<>>)
                          \o ReturningInto(ret)
    /\ whereSQL = IF "WHERE" \in clauses THEN BuildWhere(where) ELSE <<>>
    /\ conds = <<>>
    /\ dbError = <<>>
    /\ createValues = [Columns |-> <<>>, Values |-> <<>>]
    /\ path = ""
    /\ rowsAffected = 0
    /\ pc = "exec"
    /\ idx = 0
    /\ execLog = <<>>
    /\ ExtIdle

\* Update, lines 50-67, with the driver's result chosen among those the
\* statement and its binds allow
UpdateExecDriver ==
    /\ pc = "exec"
    /\ cfg.op = "update"
    /\ \E r \in DriverResults(table, sql, where, vars) :
          LET errs == UpdateError(cfg, dbError, r.err)
          IN  /\ table' = r.table
              /\ dbError' = errs
              /\ rowsAffected' = IF r.err = PointerTypeError THEN 0
                                 ELSE IF errs = <<>> THEN r.n ELSE rowsAffected
              /\ dest' = WriteOuts(dest, vars, r.rows)
              /\ execLog' = Append(execLog, [verb |-> sql.verb, row |-> 0,
                                             err |-> r.err])
    /\ pc' = "done"
    /\ UNCHANGED <<extVars, cfg, createValues, path, sql, vars, idx, whereVars>>

SpecUpdateExec == InitUpdateExec /\ [][UpdateExecDriver]_allvars

\* C28: when the driver returned an error for an UPDATE that has no RETURNING
\* clause, the error is in the error accumulator of the statement once the
\* callback is over.
C28_DriverErrorReachesAccumulator ==
    ( /\ pc = "done"
      /\ cfg.op = "update"
      /\ "RETURNING" \notin clauses
      /\ execLog # <<>>
      /\ execLog[Len(execLog)].err # "" )
    => execLog[Len(execLog)].err \in SeqToSet(dbError)

====
